---- MODULE Spec2Model ----
(***************************************************************************)
(* The configuration-driven base wrapper of the TLC component library      *)
(* (ReactBaseTLCWrapper) with its label and button specializations.        *)
(*                                                                         *)
(* A JavaScript object is a function from its own keys to values; an       *)
(* absent key is a key outside the DOMAIN.  Configuration objects live on  *)
(* a small heap so that `this._config = input` (an alias of the caller's   *)
(* object) and `{ ...this._config }` (a fresh shallow copy) differ.        *)
(***************************************************************************)
EXTENDS Integers, Sequences, FiniteSets, TLC

VARIABLES
    kind,              \* the concrete class of the instance: "label", "button", ...
    constructed,       \* FALSE until the constructor body has run
    heap,              \* address -> configuration object
    _config,           \* address held by this._config
    _previousConfig,   \* address held by this._previousConfig
    previousText,      \* label of src/components: this.previousText, as {}
                       \* (undefined) or {text}
    _staticId,         \* this._staticId, as {} (unset) or {id}
    _staticStyle,      \* this._staticStyle, as {} (undefined) or {style}
    _initialized,      \* this._initialized
    tlcDestroy,        \* label wrapper: this.tlcDestroy handler
    tlcTextChanged,    \* label wrapper: this.tlcTextChanged handler
    onEvent,           \* button wrapper: this.onEvent handler
    tlcInit,           \* split-callback wrappers: this.tlcInit handler
    tlcClick,          \* split-callback button wrapper: this.tlcClick handler
    rendered,          \* the node the host has on screen, as {} (nothing) or
                       \* {element}: the output of its last render pass
    touch,             \* the gesture of the last interaction, as {} or {event}
    mounted,           \* whether the host component is mounted
    log,               \* the calls the host component made on its wrappers and
                       \* the callbacks those invoked, oldest first
    twin,              \* the unified-event label wrapper given the same host
                       \* operations, as {} or {its fields}
    pending,           \* the configuration a setState callback of the host
                       \* has scheduled as the next props, as {} or {config}
    objects,           \* factory heap: address -> {} (free) or {object}
    created,           \* factory calls made, newest first: arguments and result
    assigned,          \* addresses of the objects a caller assigned a field of
    op,                \* name of the last call made on the instance
    effects,           \* callbacks the last call invoked, in order
    ret,               \* value the last call returned, as {} (void/null) or {v}
    calls,             \* how many times each operation / callback has run so far
    firstStaticStyle,  \* value returned by the first read of staticStyle, {} or {s}
    constructedWith,   \* the id and hooks the construction configuration carried
    inputs,            \* the objects passed by the last two constructor /
                       \* updateConfig calls, newest first: the address and
                       \* the content it had at the time of the call
    expected           \* text changes counted on the sequence of inputs alone

vars == <<kind, constructed, heap, _config, _previousConfig, previousText, _staticId,
          _staticStyle, _initialized, tlcDestroy, tlcTextChanged, onEvent,
          tlcInit, tlcClick, rendered, touch, mounted, log, twin, pending,
          objects, created, assigned, op,
          effects, ret, calls, firstStaticStyle, constructedWith, inputs,
          expected>>

wrapperFields == <<heap, _config, _previousConfig, previousText, _staticId, _staticStyle,
                   _initialized>>
handlers == <<tlcDestroy, tlcTextChanged, onEvent, tlcInit, tlcClick>>
factoryState == <<objects, created, assigned>>
screen == <<rendered, touch>>
hostState == <<mounted, log, twin, pending>>
inputHistory == <<constructedWith, inputs, expected>>

-----------------------------------------------------------------------------
(* Bounds of the exploration *)

MaxUpdates == 3
MaxCleanups == 2
MaxPasses == 3
MaxAttempts == 2

-----------------------------------------------------------------------------
(* JavaScript objects *)

EmptyObject == <<>>
Has(o, k) == k \in DOMAIN o
Opt(k, S) == {EmptyObject} \cup {k :> v : v \in S}
Omit(o, ks) == [k \in (DOMAIN o) \ ks |-> o[k]]
Assign(o, k, v) == (k :> v) @@ o

None == "none"
NullAddr == "null"
CallerAddrs == {"c1", "c2"}
SnapshotAddr == "snap"
Addrs == CallerAddrs \cup {SnapshotAddr}
Free == EmptyObject

Handlers == {"h1", "h2"}
Texts == {"A", "B"}
InitHooks == {"init1", "init2"}
DestroyHooks == {"destroy1", "destroy2"}

NgIfBool(b) == [type |-> "boolean", value |-> b]
NgIfFn(b) == [type |-> "function", returns |-> b]
\* a predicate that throws when it is called
NgIfThrows == [type |-> "function", throws |-> TRUE]
NgIfs == {NgIfBool(b) : b \in BOOLEAN} \cup {NgIfFn(b) : b \in BOOLEAN}

Styles ==
    {o @@ d @@ c : o \in Opt("opacity", {"0", "0.9"}),
                   d \in Opt("display", {"flex", "none"}),
                   c \in Opt("color", {"red"})}

-----------------------------------------------------------------------------
(* Configurations the host supplies *)

LabelBase(t) == [id |-> "lbl1", text |-> t]
ButtonBase == [id |-> "btn1", label |-> "Go", type |-> "contained"]
Base(k) == IF k = "label" THEN LabelBase("A") ELSE ButtonBase

StyleA == [color |-> "red", opacity |-> "0.9"]
StyleB == [fontSize |-> "16", display |-> "flex"]

ViewVariants ==
    {EmptyObject, "visible" :> FALSE, "ngIf" :> NgIfBool(FALSE),
     "ngIf" :> NgIfFn(FALSE), "ngIf" :> NgIfFn(TRUE), "disabled" :> TRUE,
     "stl" :> StyleA, "stl" :> StyleB,
     ("disabled" :> TRUE) @@ ("stl" :> StyleA),
     ("visible" :> FALSE) @@ ("stl" :> StyleB)}

\* every combination of the fields the visibility gate and the styles read
WideFields ==
    {v @@ n @@ d @@ o @@ c @@ s :
        v \in Opt("visible", BOOLEAN), n \in Opt("ngIf", NgIfs),
        d \in Opt("disabled", BOOLEAN),
        o \in Opt("disabledOpacity", {"0", "0.3"}),
        c \in Opt("disabledTextColor", {"", "#999"}),
        s \in Opt("stl", Styles)}

\* lifecycle hooks present, absent, or replaced by other ones; another id
LabelLifecycleConfigs ==
    {LabelBase("A") @@ i @@ d : i \in Opt("init", InitHooks),
                                d \in Opt("destroy", DestroyHooks)}
    \cup {LabelBase("B") @@ [init |-> "init1", destroy |-> "destroy1"],
          [id |-> "lbl2", text |-> "A"]}
ButtonLifecycleConfigs ==
    {ButtonBase @@ i @@ d : i \in Opt("init", InitHooks),
                            d \in Opt("destroy", DestroyHooks)}
    \cup {[id |-> "btn2", label |-> "Stop", type |-> "STROKED"]}

\* text, the external state-sync callback, and fields the label does not compare
LabelChangeConfigs ==
    {LabelBase(t) @@ s @@ v :
        t \in Texts, s \in Opt("setState", {"setState1"}),
        v \in {EmptyObject, "visible" :> FALSE,
               ("disabled" :> TRUE) @@ ("stl" :> StyleA)}}
ButtonChangeConfigs ==
    {ButtonBase, ButtonBase @@ ("disabled" :> TRUE),
     [id |-> "btn2", label |-> "Stop", type |-> "STROKED"]}

\* presentation fields changing from one update to the next
LabelCacheConfigs == {LabelBase("A") @@ v : v \in ViewVariants}
ButtonCacheConfigs == {ButtonBase @@ v : v \in ViewVariants}

LabelWideConfigs == {LabelBase("A") @@ w : w \in WideFields}
ButtonWideConfigs == {ButtonBase @@ w : w \in WideFields}

\* interaction fields of a button, changing from one update to the next
PressVariants ==
    {EmptyObject, "disabled" :> TRUE, "longPress" :> TRUE, "longPress" :> FALSE,
     ("disabled" :> TRUE) @@ ("longPress" :> TRUE), "visible" :> FALSE,
     "status" :> "success", "attr" :> [hapticFeedback |-> TRUE]}
PressConfigs ==
    {ButtonBase @@ v : v \in PressVariants}
    \cup {[id |-> "btn1", label |-> "Stop", type |-> "outlined",
           longPress |-> TRUE]}

\* button configurations of two ids
RenameConfigs ==
    {ButtonBase, ButtonBase @@ ("longPress" :> TRUE),
     [id |-> "btn2", label |-> "Go", type |-> "contained", longPress |-> TRUE]}

\* the gesture event an interaction passes to the closure: none, or one
\* whose nativeEvent has a timestamp and page coordinates, or lacks them
NativeEvents ==
    {EmptyObject, [timestamp |-> 5, pageX |-> 3, pageY |-> 4],
     [timestamp |-> 0, pageX |-> 0, pageY |-> 4]}
GestureEvents == {{}} \cup {{"nativeEvent" :> n} : n \in NativeEvents}

\* the values Date.now() returns
Clock == {100}

\* configurations whose id differs from one update to the next
IdentityConfigs(k) ==
    {Base(k), Assign(Base(k), "id", "other"),
     Base(k) @@ [init |-> "init1", destroy |-> "destroy1"],
     Assign(Base(k), "id", "other") @@ ("visible" :> FALSE)}

\* the configurations a parent passes to the component from render to render
LabelHostConfigs ==
    {LabelBase("A") @@ x :
        x \in {EmptyObject, [init |-> "init1", destroy |-> "destroy1"],
               "visible" :> FALSE}}
    \cup {LabelBase("B"), [id |-> "lbl2", text |-> "A", init |-> "init2"]}
ButtonHostConfigs ==
    {ButtonBase @@ x :
        x \in {EmptyObject, [init |-> "init1", destroy |-> "destroy1"],
               "disabled" :> TRUE}}
    \cup {[id |-> "btn1", label |-> "Stop", type |-> "outlined"],
          [id |-> "btn2", label |-> "Go", type |-> "contained", init |-> "init2"]}
LabelTwinConfigs ==
    {LabelBase("A"),
     LabelBase("B") @@ [init |-> "init1", destroy |-> "destroy1",
                        setState |-> "set1"],
     [id |-> "lbl2", text |-> "A", init |-> "init2"]}
\* configurations whose hooks, or some of them, throw
ThrowConfigs(k) ==
    {Base(k) @@ x :
        x \in {[init |-> "init1", destroy |-> "destroy1"],
               [init |-> "initThrows", destroy |-> "destroy1"],
               [init |-> "init1", destroy |-> "destroyThrows"],
               "ngIf" :> NgIfThrows}}
    \cup (IF k = "label"
          THEN {LabelBase("B") @@ x :
                  x \in {EmptyObject, "setState" :> "setStateThrows"}}
          ELSE {})
\* label configurations with and without the setState callback of the host
LoopConfigs ==
    {LabelBase(t) @@ x : t \in Texts, x \in {EmptyObject, "setState" :> "feedback"}}
    \cup {[id |-> "lbl2", text |-> "B", setState |-> "feedback"]}
HostConfigs(k) == IF k = "label" THEN LabelHostConfigs ELSE ButtonHostConfigs

LifecycleConfigs(k) ==
    IF k = "label" THEN LabelLifecycleConfigs ELSE ButtonLifecycleConfigs
ChangeConfigs(k) == IF k = "label" THEN LabelChangeConfigs ELSE ButtonChangeConfigs
CacheConfigs(k) == IF k = "label" THEN LabelCacheConfigs ELSE ButtonCacheConfigs
WideConfigs(k) == IF k = "label" THEN LabelWideConfigs ELSE ButtonWideConfigs

\* configurations from which required fields may be missing
PartialConfigs(k) ==
    {Omit(c, ks) : c \in ChangeConfigs(k),
                   ks \in SUBSET {"text", "label", "type"}}

-----------------------------------------------------------------------------
(* ReactBaseTLCWrapper: pure parts *)

\* this._previousConfig = this._config: the caller's object itself
SnapshotByReference(h, ref) == [heap |-> h, ref |-> ref]

\* const copy = { ...this._config }: a fresh object with the same own keys
Snapshot(h, ref) ==
    [heap |-> [h EXCEPT ![SnapshotAddr] = h[ref]], ref |-> SnapshotAddr]

\* computeStaticStyle copying the whole style-override record
computeStaticStyleWhole(cfg) ==
    IF Has(cfg, "stl") THEN cfg.stl ELSE EmptyObject

computeStaticStyle(cfg) ==
    IF Has(cfg, "stl") THEN Omit(cfg.stl, {"opacity", "display"}) ELSE EmptyObject

\* get staticId() reading the id of the held configuration
staticIdFromConfig(field, cfg) == {cfg.id}

\* get staticId(): return this._staticId
staticIdGetter(field, cfg) == field

\* get staticStyle() recomputing on every read
staticStyleUncached(cache, cfg) ==
    [cache |-> {computeStaticStyle(cfg)},
     effects |-> <<[kind |-> "computeStaticStyle"]>>]

\* get staticStyle(): the cache after the read, and the computation it ran
staticStyleGetter(cache, cfg) ==
    IF cache = {}
    THEN [cache |-> {computeStaticStyle(cfg)},
          effects |-> <<[kind |-> "computeStaticStyle"]>>]
    ELSE [cache |-> cache, effects |-> <<>>]

IsDisabled(cfg) == Has(cfg, "disabled") /\ cfg.disabled
IsInvisible(cfg) == Has(cfg, "visible") /\ cfg.visible = FALSE

\* the disabled style testing disabledOpacity for truthiness
DisabledStyleTruthyOpacity(cfg) ==
    IF IsDisabled(cfg)
    THEN LET withOpacity ==
                 "opacity" :> (IF Has(cfg, "disabledOpacity") /\ cfg.disabledOpacity # "0"
                               THEN cfg.disabledOpacity ELSE "0.6")
         IN IF Has(cfg, "disabledTextColor") /\ cfg.disabledTextColor # ""
            THEN Assign(withOpacity, "color", cfg.disabledTextColor)
            ELSE withOpacity
    ELSE EmptyObject

DisabledStyle(cfg) ==
    IF IsDisabled(cfg)
    THEN LET withOpacity ==
                 "opacity" :> (IF Has(cfg, "disabledOpacity")
                               THEN cfg.disabledOpacity ELSE "0.6")
         IN IF Has(cfg, "disabledTextColor") /\ cfg.disabledTextColor # ""
            THEN Assign(withOpacity, "color", cfg.disabledTextColor)
            ELSE withOpacity
    ELSE EmptyObject

HiddenStyle(cfg, styles) ==
    IF IsInvisible(cfg) THEN Assign(styles, "display", "none") ELSE styles

\* the style overrides applied whatever the state flags
OverrideStyleUnguarded(cfg, styles) ==
    IF Has(cfg, "stl")
    THEN LET s1 == IF Has(cfg.stl, "opacity")
                   THEN Assign(styles, "opacity", cfg.stl.opacity) ELSE styles
         IN IF Has(cfg.stl, "display")
            THEN Assign(s1, "display", cfg.stl.display) ELSE s1
    ELSE styles

\* the style overrides testing opacity and display for truthiness
OverrideStyleTruthy(cfg, styles) ==
    IF Has(cfg, "stl")
    THEN LET s1 == IF Has(cfg.stl, "opacity") /\ cfg.stl.opacity # "0"
                      /\ ~IsDisabled(cfg)
                   THEN Assign(styles, "opacity", cfg.stl.opacity) ELSE styles
         IN IF Has(cfg.stl, "display") /\ cfg.stl.display # ""
               /\ ~IsInvisible(cfg)
            THEN Assign(s1, "display", cfg.stl.display) ELSE s1
    ELSE styles

OverrideStyle(cfg, styles) ==
    IF Has(cfg, "stl")
    THEN LET s1 == IF Has(cfg.stl, "opacity") /\ ~IsDisabled(cfg)
                   THEN Assign(styles, "opacity", cfg.stl.opacity) ELSE styles
         IN IF Has(cfg.stl, "display") /\ ~IsInvisible(cfg)
            THEN Assign(s1, "display", cfg.stl.display) ELSE s1
    ELSE styles

computeDynamicStyle(cfg) == OverrideStyle(cfg, HiddenStyle(cfg, DisabledStyle(cfg)))

\* the gate hiding a disabled component too
shouldHideWhenDisabled(cfg) ==
    IF IsInvisible(cfg) \/ IsDisabled(cfg) THEN TRUE
    ELSE IF Has(cfg, "ngIf") /\ cfg.ngIf.type = "boolean" /\ cfg.ngIf.value = FALSE THEN TRUE
    ELSE IF Has(cfg, "ngIf") /\ cfg.ngIf.type = "function" /\ ~cfg.ngIf.returns THEN TRUE
    ELSE FALSE

\* the gate without the predicate form of ngIf
shouldHideIgnoringPredicate(cfg) ==
    IF IsInvisible(cfg) THEN TRUE
    ELSE IF Has(cfg, "ngIf") /\ cfg.ngIf.type = "boolean" /\ cfg.ngIf.value = FALSE THEN TRUE
    ELSE FALSE

shouldHideComponent(cfg) ==
    IF IsInvisible(cfg) THEN TRUE
    ELSE IF Has(cfg, "ngIf") /\ cfg.ngIf.type = "boolean" /\ cfg.ngIf.value = FALSE THEN TRUE
    ELSE IF Has(cfg, "ngIf") /\ cfg.ngIf.type = "function" /\ ~cfg.ngIf.returns THEN TRUE
    ELSE FALSE

\* Strings that are converted character by character are sequences of
\* characters; "U+0131" (dotless i) and "U+017F" (long s) stand for the two
\* characters outside ASCII whose upper-case form is an ASCII letter.
LowerCase ==
    <<"a", "b", "c", "d", "e", "i", "k", "l", "n", "o", "r", "s", "t", "u", "x", "z">>
UpperCase ==
    <<"A", "B", "C", "D", "E", "I", "K", "L", "N", "O", "R", "S", "T", "U", "X", "Z">>

\* String.prototype.toUpperCase
toUpperCaseChar(c) ==
    IF \E i \in DOMAIN LowerCase : LowerCase[i] = c
    THEN UpperCase[CHOOSE i \in DOMAIN LowerCase : LowerCase[i] = c]
    ELSE IF c = "U+0131" THEN "I"
    ELSE IF c = "U+017F" THEN "S"
    ELSE c
toUpperCase(str) == [i \in DOMAIN str |-> toUpperCaseChar(str[i])]

\* the case labels of getButtonMode
BASIC == <<"B", "A", "S", "I", "C">>
STROKED == <<"S", "T", "R", "O", "K", "E", "D">>
RAISED == <<"R", "A", "I", "S", "E", "D">>
CONTAINED == <<"C", "O", "N", "T", "A", "I", "N", "E", "D">>
OUTLINED == <<"O", "U", "T", "L", "I", "N", "E", "D">>
TEXT == <<"T", "E", "X", "T">>

\* the characters of the type values that the configurations of the model use
Characters(str) ==
    CASE str = "contained" -> <<"c", "o", "n", "t", "a", "i", "n", "e", "d">>
      [] str = "outlined" -> <<"o", "u", "t", "l", "i", "n", "e", "d">>
      [] str = "STROKED" -> STROKED

\* getButtonMode comparing the type as it is written
getButtonModeCaseSensitive(type) ==
    CASE type = BASIC -> "text"
      [] type = STROKED -> "outlined"
      [] type = RAISED -> "contained"
      [] type = CONTAINED -> "contained"
      [] type = OUTLINED -> "outlined"
      [] type = TEXT -> "text"
      [] OTHER -> "text"

\* getButtonMode(type): switch (type.toUpperCase())
getButtonMode(type) ==
    LET upper == toUpperCase(type)
    IN CASE upper = BASIC -> "text"
         [] upper = STROKED -> "outlined"
         [] upper = RAISED -> "contained"
         [] upper = CONTAINED -> "contained"
         [] upper = OUTLINED -> "outlined"
         [] upper = TEXT -> "text"
         [] OTHER -> "text"

\* o.k as {} (undefined) or {value}
Field(o, k) == IF Has(o, k) THEN {o[k]} ELSE {}

-----------------------------------------------------------------------------
(* Callbacks a call invokes, recorded in the order of invocation *)

InitCall(hook) == [kind |-> "init", hook |-> hook]
DestroyCall(hook) == [kind |-> "destroy", hook |-> hook]
ConfigChangeCall(previous, current) ==
    [kind |-> "onConfigChange", previous |-> previous, current |-> current]
TextChangedCall(handler, text, textBefore) ==
    [kind |-> "tlcTextChanged", to |-> handler, text |-> text,
     previousText |-> textBefore]
SetStateCall(hook, cfg) == [kind |-> "setState", hook |-> hook, arg |-> cfg]
NotifyCall(knd, handler) == [kind |-> knd, to |-> handler]

\* the classes whose constructor and host take one onEvent callback
TakesOnEvent(k) == k \in {"button", "labelUnified", "coreLabel"}

\* handler?.(...): nothing happens when no handler is attached
Optional(handler, call) == IF handler = None THEN <<>> ELSE <<call>>

Count(effs, k) == Cardinality({i \in DOMAIN effs : effs[i].kind = k})

-----------------------------------------------------------------------------
(* ReactBaseTLCWrapper and its specializations: operations *)

\* useLifecycle(input): the fields and the callbacks invoked
useLifecycle(h, input, initialized) ==
    LET cfg == h[input]
        snap == Snapshot(h, input)
        fire == Has(cfg, "init") /\ ~initialized
    IN [heap |-> snap.heap, config |-> input, previousConfig |-> snap.ref,
        staticId |-> {cfg.id},
        initialized |-> IF fire THEN TRUE ELSE initialized,
        effects |-> IF fire THEN <<InitCall(cfg.init)>> ELSE <<>>]

\* the label hook calling setState before it notifies
LabelOnConfigChangeSyncFirst(previousConfig, currentConfig, handler) ==
    IF Field(previousConfig, "text") # Field(currentConfig, "text")
    THEN (IF Has(currentConfig, "setState")
          THEN <<SetStateCall(currentConfig.setState, currentConfig)>>
          ELSE <<>>)
         \o Optional(handler,
                     TextChangedCall(handler, Field(currentConfig, "text"),
                                     Field(previousConfig, "text")))
    ELSE <<>>

\* the label hook comparing the whole configuration instead of its text
LabelOnConfigChangeAnyField(previousConfig, currentConfig, handler) ==
    IF previousConfig # currentConfig
    THEN Optional(handler,
                  TextChangedCall(handler, Field(currentConfig, "text"),
                                  Field(previousConfig, "text")))
         \o (IF Has(currentConfig, "setState")
             THEN <<SetStateCall(currentConfig.setState, currentConfig)>>
             ELSE <<>>)
    ELSE <<>>

\* TLCLabelWrapper.onConfigChange(previousConfig, currentConfig)
LabelOnConfigChange(previousConfig, currentConfig, handler) ==
    IF Field(previousConfig, "text") # Field(currentConfig, "text")
    THEN Optional(handler,
                  TextChangedCall(handler, Field(currentConfig, "text"),
                                  Field(previousConfig, "text")))
         \o (IF Has(currentConfig, "setState")
             THEN <<SetStateCall(currentConfig.setState, currentConfig)>>
             ELSE <<>>)
    ELSE <<>>

\* the hook as dispatched on the concrete class (the base one does nothing)
onConfigChange(k, previousConfig, currentConfig, handler) ==
    IF k = "label"
    THEN LabelOnConfigChange(previousConfig, currentConfig, handler)
    ELSE <<>>

\* updateConfig keeping the configuration it held
updateConfigCallKeepingConfig(k, h, previousRef, config, handler) ==
    LET snap == Snapshot(h, previousRef)
    IN [heap |-> [snap.heap EXCEPT ![config] = h[previousRef]],
        config |-> config, previousConfig |-> snap.ref,
        effects |-> <<ConfigChangeCall(h[previousRef], h[config])>>
                    \o onConfigChange(k, h[previousRef], h[config], handler)]

\* updateConfig overwriting the snapshot before it calls the hook
updateConfigCallSnapshotFirst(k, h, previousRef, config, handler) ==
    LET snap == Snapshot(h, config)
    IN [heap |-> snap.heap, config |-> config, previousConfig |-> snap.ref,
        effects |-> <<ConfigChangeCall(snap.heap[previousRef], snap.heap[config])>>
                    \o onConfigChange(k, snap.heap[previousRef],
                                      snap.heap[config], handler)]

\* updateConfig re-running the init hook of the new configuration
updateConfigCallReinit(k, h, previousRef, config, handler) ==
    LET snap == Snapshot(h, config)
    IN [heap |-> snap.heap, config |-> config, previousConfig |-> snap.ref,
        effects |-> <<ConfigChangeCall(h[previousRef], h[config])>>
                    \o onConfigChange(k, h[previousRef], h[config], handler)
                    \o (IF Has(h[config], "init")
                        THEN <<InitCall(h[config].init)>> ELSE <<>>)]

\* updateConfig never replacing the snapshot it diffs against
updateConfigCallStaleSnapshot(k, h, previousRef, config, handler) ==
    [heap |-> h, config |-> config, previousConfig |-> previousRef,
     effects |-> IF previousRef # NullAddr
                 THEN <<ConfigChangeCall(h[previousRef], h[config])>>
                      \o onConfigChange(k, h[previousRef], h[config], handler)
                 ELSE <<>>]

\* updateConfig(config): the fields and the callbacks invoked
updateConfigCall(k, h, previousRef, config, handler) ==
    LET snap == Snapshot(h, config)
    IN [heap |-> snap.heap, config |-> config, previousConfig |-> snap.ref,
        effects |-> IF previousRef # NullAddr
                    THEN <<ConfigChangeCall(h[previousRef], h[config])>>
                         \o onConfigChange(k, h[previousRef], h[config], handler)
                    ELSE <<>>]

\* cleanup() invoking the destroy hook the wrapper was constructed with
destroyFromConstruction(cfg, initialized) ==
    IF Has(constructedWith, "destroy") /\ initialized
    THEN [initialized |-> FALSE,
          effects |-> <<DestroyCall(constructedWith.destroy)>>]
    ELSE [initialized |-> initialized, effects |-> <<>>]

\* cleanup() that leaves the initialized flag set
destroyKeepingFlag(cfg, initialized) ==
    IF Has(cfg, "destroy") /\ initialized
    THEN [initialized |-> initialized, effects |-> <<DestroyCall(cfg.destroy)>>]
    ELSE [initialized |-> initialized, effects |-> <<>>]

\* the destroy part shared by every cleanup()
destroyIfInitialized(cfg, initialized) ==
    IF Has(cfg, "destroy") /\ initialized
    THEN [initialized |-> FALSE, effects |-> <<DestroyCall(cfg.destroy)>>]
    ELSE [initialized |-> initialized, effects |-> <<>>]

\* cleanup(): the destroyed notification of the class, then the destroy hook
cleanupCall(k, cfg, initialized, handler) ==
    LET d == destroyIfInitialized(cfg, initialized)
        n == IF TakesOnEvent(k) THEN "destroyed" ELSE "tlcDestroy"
    IN [initialized |-> d.initialized,
        effects |-> Optional(handler, NotifyCall(n, handler)) \o d.effects]

\* an optional boolean field used as a condition
Truthy(v) == v = {TRUE}

\* a || b, for a an optional number (falsy: 0) or string (falsy: "")
OrElse(a, falsy, b) ==
    IF a = {} \/ a = {falsy} THEN b ELSE CHOOSE v \in a : TRUE

\* event?.nativeEvent?.field
NativeField(event, f) ==
    UNION {Field(n, f) : n \in UNION {Field(e, "nativeEvent") : e \in event}}

\* cfg.attr?.field
AttrField(cfg, f) == UNION {Field(a, f) : a \in Field(cfg, "attr")}

\* the click event of the split-callback button
ClickEvent(cfg, event, now) ==
    [id |-> cfg.id, label |-> cfg.label,
     eventMeta |-> [timestamp |-> OrElse(NativeField(event, "timestamp"), 0, now),
                    x |-> OrElse(NativeField(event, "pageX"), 0, 0),
                    y |-> OrElse(NativeField(event, "pageY"), 0, 0),
                    pointerType |-> "touch"]]

\* the event of the unified button of a given type
ButtonEvent(type, staticId, data, now) ==
    [type |-> type, componentId |-> staticId, data |-> data, timestamp |-> now]

KeyboardDismiss == [kind |-> "Keyboard.dismiss"]
Vibrate(ms) == [kind |-> "Vibration.vibrate", ms |-> ms]
EventCall(knd, handler, event) == [kind |-> knd, to |-> handler, event |-> event]

\* the onPress closure reporting the id where the label belongs
onPressLabelFromId(k, cfg, staticId, handler, event, now) ==
    IF k = "button"
    THEN <<KeyboardDismiss>>
            \o Optional(handler, EventCall("press", handler,
                    ButtonEvent("press", staticId,
                        [label |-> cfg.id, status |-> Field(cfg, "status")],
                        now)))
    ELSE <<KeyboardDismiss>>
            \o Optional(handler, EventCall("tlcClick", handler,
                    ClickEvent([cfg EXCEPT !.label = cfg.id], event, now)))

\* the onPress closure a render creates over cfg, run with a gesture event;
\* handler and staticId are read from the wrapper when it runs
onPress(k, cfg, staticId, handler, event, now) ==
    IF k = "button"
    THEN <<KeyboardDismiss>>
            \o Optional(handler, EventCall("press", handler,
                    ButtonEvent("press", staticId,
                        [label |-> cfg.label, status |-> Field(cfg, "status")],
                        now)))
    ELSE <<KeyboardDismiss>>
            \o (IF Truthy(AttrField(cfg, "hapticFeedback"))
                THEN <<Vibrate(10)>> ELSE <<>>)
            \o Optional(handler, EventCall("tlcClick", handler,
                    ClickEvent(cfg, event, now)))

\* the onLongPress closure a render creates over cfg
onLongPress(k, cfg, staticId, handler, event, now) ==
    IF k = "button"
    THEN Optional(handler, EventCall("longPress", handler,
            ButtonEvent("longPress", staticId, [label |-> cfg.label], now)))
    ELSE Optional(handler, EventCall("tlcClick", handler,
            ClickEvent(cfg, event, now)))

\* the closures of an element: each holds the configuration it was created
\* over (no owner assigns to a configuration object between a render and an
\* interaction here, so the content stands for the captured object)
Closure(cfg) == [cfg |-> cfg]

\* a button element with a long-press handler whatever the configuration
ElementAlwaysLongPress(k, cfg, static, dynamic) ==
    IF k = "label"
    THEN [type |-> "Text", style |-> <<static, dynamic>>, testID |-> cfg.id,
          children |-> Field(cfg, "text")]
    ELSE
    [type |-> "Button", mode |-> getButtonMode(Characters(cfg.type)),
     onPress |-> {Closure(cfg)}, onLongPress |-> {Closure(cfg)},
     disabled |-> Field(cfg, "disabled"),
     contentStyle |-> <<static, dynamic>>,
     testID |-> IF k = "button" THEN cfg.id
                ELSE OrElse(AttrField(cfg, "testID"), "", cfg.id),
     children |-> cfg.label]

\* The button of src/components, on the base class that completes what it
\* is given: getDefaultConfig()
getDefaultConfig ==
    [label |-> "Press me", type |-> "contained", color |-> "primary",
     size |-> "medium", disabled |-> FALSE, visible |-> TRUE, loading |-> FALSE]

\* { ...this.getDefaultConfig(), ...input }: a new object owned by the wrapper
Completed(h, input) == [h EXCEPT ![SnapshotAddr] = h[input] @@ getDefaultConfig]

\* its constructor: useLifecycle(input), then the initialized event
CoreConstructor(h, input, initialized, handler) ==
    LET merged == Completed(h, input)
        cfg == merged[SnapshotAddr]
        fire == Has(cfg, "init") /\ ~initialized
    IN [heap |-> merged, config |-> SnapshotAddr, previousConfig |-> NullAddr,
        staticId |-> {cfg.id},
        initialized |-> IF fire THEN TRUE ELSE initialized,
        effects |-> (IF fire THEN <<InitCall(cfg.init)>> ELSE <<>>)
                    \o Optional(handler, NotifyCall("initialized", handler))]

\* its updateConfig(config)
CoreUpdateConfig(h, config) ==
    [heap |-> Completed(h, config), config |-> SnapshotAddr,
     previousConfig |-> NullAddr, effects |-> <<>>]

\* The label of src/components, on the same base class: getDefaultConfig()
getDefaultLabelConfig == [text |-> "Label", visible |-> TRUE, disabled |-> FALSE]

\* { ...this.getDefaultConfig(), ...input } of the label
CompletedLabel(h, input) ==
    [h EXCEPT ![SnapshotAddr] = h[input] @@ getDefaultLabelConfig]

\* its constructor: onEvent, useLifecycle(input), previousText = input.text,
\* then the initialized event
CoreLabelConstructor(h, input, initialized, handler) ==
    LET merged == CompletedLabel(h, input)
        cfg == merged[SnapshotAddr]
        fire == Has(cfg, "init") /\ ~initialized
    IN [heap |-> merged, config |-> SnapshotAddr, previousConfig |-> NullAddr,
        staticId |-> {cfg.id},
        initialized |-> IF fire THEN TRUE ELSE initialized,
        previousText |-> Field(h[input], "text"),
        effects |-> (IF fire THEN <<InitCall(cfg.init)>> ELSE <<>>)
                    \o Optional(handler, NotifyCall("initialized", handler))]

\* checkTextChange(): the event, the setState callback, and the text
\* remembered for the next comparison
checkTextChange(cfg, remembered, handler, staticId, now) ==
    IF Field(cfg, "text") # remembered
    THEN [previousText |-> Field(cfg, "text"),
          effects |-> Optional(handler, EventCall("textChanged", handler,
                          [type |-> "textChanged", componentId |-> staticId,
                           data |-> [text |-> Field(cfg, "text"),
                                     previousText |-> remembered],
                           timestamp |-> now]))
                      \o (IF Has(cfg, "setState")
                          THEN <<SetStateCall(cfg.setState, cfg)>> ELSE <<>>)]
    ELSE [previousText |-> remembered, effects |-> <<>>]

\* its updateConfig(config): super.updateConfig(config), checkTextChange()
CoreLabelUpdateConfig(h, config, handler, staticId, remembered, now) ==
    LET merged == CompletedLabel(h, config)
        t == checkTextChange(merged[SnapshotAddr], remembered, handler,
                             staticId, now)
    IN [heap |-> merged, config |-> SnapshotAddr, previousConfig |-> NullAddr,
        previousText |-> t.previousText, effects |-> t.effects]

\* its styles: the static one from the theme, the dynamic one from stl and
\* the state flags
CoreLabelStaticStyle ==
    [fontSize |-> "16", color |-> "theme.colors.text",
     fontFamily |-> "theme.fonts.regular"]
CoreLabelDynamicStyle(cfg) ==
    LET s0 == IF Has(cfg, "stl") THEN cfg.stl ELSE EmptyObject
        s1 == IF IsDisabled(cfg)
              THEN Assign(Assign(s0, "opacity", "0.6"), "color",
                          "theme.colors.disabled")
              ELSE s0
    IN IF IsInvisible(cfg) THEN Assign(s1, "display", "none") ELSE s1

\* its render(): the gate, then the Text element
CoreLabelRender(cfg, cache) ==
    IF \/ IsInvisible(cfg)
       \/ Has(cfg, "ngIf") /\ cfg.ngIf.type = "boolean" /\ cfg.ngIf.value = FALSE
       \/ Has(cfg, "ngIf") /\ cfg.ngIf.type = "function" /\ ~cfg.ngIf.returns
    THEN [cache |-> cache, effects |-> <<>>, ret |-> {}]
    ELSE LET filled == IF cache = {} THEN {CoreLabelStaticStyle} ELSE cache
         IN [cache |-> filled,
             effects |-> IF cache = {} THEN <<[kind |-> "computeStaticStyle"]>>
                         ELSE <<>>,
             ret |-> {[type |-> "Text",
                       style |-> <<CHOOSE st \in filled : TRUE,
                                   CoreLabelDynamicStyle(cfg)>>,
                       accessibilityLabel |-> OrElse(Field(cfg, "text"), "", cfg.id),
                       testID |-> cfg.id,
                       children |-> Field(cfg, "text")]}]

\* the text a constructor or an updateConfig call leaves in previousText:
\* none in the classes that have no such field
PreviousTextOf(made) ==
    IF "previousText" \in DOMAIN made THEN made.previousText ELSE {}

\* new Wrapper(...) and wrapper.updateConfig(...) of the class of kind k
constructorOf(k, h, input, initialized, handler) ==
    IF k = "coreButton" THEN CoreConstructor(h, input, initialized, handler)
    ELSE IF k = "coreLabel"
    THEN CoreLabelConstructor(h, input, initialized, handler)
    ELSE useLifecycle(h, input, initialized)
updateConfigOf(k, h, previousRef, config, handler) ==
    IF k = "coreButton" THEN CoreUpdateConfig(h, config)
    ELSE updateConfigCall(k, h, previousRef, config, handler)

\* what render() returns when the component is shown
Element(k, cfg, static, dynamic) ==
    IF k \in {"label", "labelUnified"}
    THEN [type |-> "Text", style |-> <<static, dynamic>>, testID |-> cfg.id,
          children |-> Field(cfg, "text")]
    ELSE [type |-> "Button", mode |-> getButtonMode(Characters(cfg.type)),
          onPress |-> {Closure(cfg)},
          onLongPress |-> IF Truthy(Field(cfg, "longPress"))
                          THEN {Closure(cfg)} ELSE {},
          disabled |-> Field(cfg, "disabled"),
          contentStyle |-> <<static, dynamic>>,
          testID |-> IF k = "button" THEN cfg.id
                     ELSE OrElse(AttrField(cfg, "testID"), "", cfg.id),
          children |-> cfg.label]

\* the rendering layer's dispatch of an interaction on an element: the
\* closures of the given prop it runs, none for a disabled button
Dispatch(el, prop) == IF Truthy(el.disabled) THEN {} ELSE el[prop]

\* initializeEvent()
initializeEventCall(k, staticId, onEventHandler, tlcInitHandler, now) ==
    IF TakesOnEvent(k)
    THEN Optional(onEventHandler, EventCall("initialized", onEventHandler,
            [type |-> "initialized", componentId |-> staticId,
             timestamp |-> now]))
    ELSE Optional(tlcInitHandler, NotifyCall("tlcInit", tlcInitHandler))

\* render(): the static-style cache after the call and the returned node
renderCall(k, cfg, cache) ==
    IF k = "coreLabel" THEN CoreLabelRender(cfg, cache)
    ELSE IF shouldHideComponent(cfg)
    THEN [cache |-> cache, effects |-> <<>>, ret |-> {}]
    ELSE LET g == staticStyleGetter(cache, cfg)
             static == CHOOSE s \in g.cache : TRUE
         IN [cache |-> g.cache, effects |-> g.effects,
             ret |-> {Element(k, cfg, static, computeDynamicStyle(cfg))}]

-----------------------------------------------------------------------------
(* State machine *)

Kinds == {"label", "button"}

NoCalls ==
    [updateConfig |-> 0, cleanup |-> 0, init |-> 0, destroy |-> 0,
     onConfigChange |-> 0, tlcTextChanged |-> 0, setState |-> 0,
     computeStaticStyle |-> 0]

\* no wrapper instance yet
Unconstructed ==
    /\ constructed = FALSE
    /\ heap = [a \in Addrs |-> Free]
    /\ _config = NullAddr
    /\ _previousConfig = NullAddr
    /\ previousText = {}
    /\ _staticId = {}
    /\ _staticStyle = {}
    /\ _initialized = FALSE
    /\ tlcDestroy = None
    /\ tlcTextChanged = None
    /\ onEvent = None
    /\ tlcInit = None
    /\ tlcClick = None
    /\ rendered = {}
    /\ touch = {}
    /\ mounted = FALSE
    /\ log = <<>>
    /\ twin = {}
    /\ pending = {}
    /\ op = "none"
    /\ effects = <<>>
    /\ ret = {}
    /\ calls = NoCalls
    /\ firstStaticStyle = {}
    /\ constructedWith = EmptyObject
    /\ inputs = <<>>
    /\ expected = [tlcTextChanged |-> 0, setState |-> 0]

Init ==
    /\ kind \in Kinds
    /\ Unconstructed
    /\ objects = EmptyObject
    /\ created = <<>>
    /\ assigned = {}

\* the call just made, what it invoked and returned, and the running totals
Returned(name, effs, r) ==
    /\ op' = name
    /\ effects' = effs
    /\ ret' = r
    /\ calls' = [k \in DOMAIN calls |->
                    calls[k] + (IF k = name THEN 1 ELSE 0) + Count(effs, k)]

\* an object the caller has just created: an address nothing refers to
FreshAddr == CHOOSE a \in CallerAddrs : a \notin {_config, _previousConfig}

\* objects nothing refers to any more are dropped
Collect(h, refs) == [a \in Addrs |-> IF a \in refs THEN h[a] ELSE Free]

\* the held configuration object
Held == heap[_config]

\* the input history after a call passing the object at a with content c
Passed(a, c) ==
    <<[ref |-> a, cfg |-> c]>> \o (IF inputs = <<>> THEN <<>> ELSE <<inputs[1]>>)
LastInput == {inputs[i].cfg : i \in DOMAIN inputs \cap {1}}
PrevInput == {inputs[i].cfg : i \in DOMAIN inputs \cap {2}}

\* new Wrapper(input) / new Wrapper(input, onEvent)
Constructor(c, h) ==
    /\ ~constructed
    /\ LET a == FreshAddr
           r == constructorOf(kind, [heap EXCEPT ![a] = c], a, _initialized, h)
       IN /\ heap' = Collect(r.heap, {r.config, r.previousConfig})
          /\ _config' = r.config
          /\ _previousConfig' = r.previousConfig
          /\ _staticId' = r.staticId
          /\ _initialized' = r.initialized
          /\ Returned("new", r.effects, {})
    /\ constructed' = TRUE
    /\ kind \notin {"button", "coreButton"} => h = None
    /\ onEvent' = h
    /\ constructedWith' = [k \in DOMAIN c \cap {"id", "init", "destroy"} |-> c[k]]
    /\ inputs' = Passed(FreshAddr, c)
    /\ UNCHANGED <<factoryState, screen, hostState>>
    /\ UNCHANGED <<kind, previousText, _staticStyle, tlcDestroy, tlcTextChanged, tlcInit,
                   tlcClick, firstStaticStyle, expected>>

\* wrapper.updateConfig(the object at address a, whose content is c)
UpdateAt(a, c) ==
    /\ constructed
    /\ calls.updateConfig < MaxUpdates
    /\ LET r == updateConfigOf(kind, [heap EXCEPT ![a] = c], _previousConfig,
                               a, tlcTextChanged)
           differs == kind = "label" /\ \E p \in LastInput :
                          Field(p, "text") # Field(c, "text")
       IN /\ heap' = Collect(r.heap, {r.config, r.previousConfig})
          /\ _config' = r.config
          /\ _previousConfig' = r.previousConfig
          /\ Returned("updateConfig", r.effects, {})
          /\ expected' =
               [tlcTextChanged |-> expected.tlcTextChanged
                    + (IF differs /\ tlcTextChanged # None THEN 1 ELSE 0),
                setState |-> expected.setState
                    + (IF differs /\ Has(c, "setState") THEN 1 ELSE 0)]
    /\ inputs' = Passed(a, c)
    /\ UNCHANGED <<factoryState, screen, hostState>>
    /\ UNCHANGED <<kind, constructed, previousText, _staticId, _staticStyle, _initialized,
                   handlers, firstStaticStyle, constructedWith>>

\* the host passes a configuration object it has just built
updateConfig(c) == UpdateAt(FreshAddr, c)

\* the host passes the object the wrapper already holds (as on mount)
updateConfigSameObject == constructed /\ UpdateAt(_config, Held)

\* the owner of the configuration object assigns one of its fields in place
hostMutatesText(t) ==
    /\ constructed
    /\ kind = "label"
    /\ Field(Held, "text") # {t}
    /\ heap' = [heap EXCEPT ![_config] = Assign(@, "text", t)]
    /\ Returned("mutate", <<>>, {})
    /\ UNCHANGED <<factoryState, screen, hostState>>
    /\ UNCHANGED <<kind, constructed, _config, _previousConfig, previousText, _staticId,
                   _staticStyle, _initialized, handlers, firstStaticStyle,
                   inputHistory>>

\* wrapper.cleanup()
cleanup ==
    /\ constructed
    /\ calls.cleanup < MaxCleanups
    /\ LET r == cleanupCall(kind, Held, _initialized,
                            IF kind = "button" THEN onEvent ELSE tlcDestroy)
       IN /\ _initialized' = r.initialized
          /\ Returned("cleanup", r.effects, {})
    /\ UNCHANGED <<factoryState, screen, hostState>>
    /\ UNCHANGED <<kind, constructed, heap, _config, _previousConfig, previousText, _staticId,
                   _staticStyle, handlers, firstStaticStyle, inputHistory>>

\* the first value a read of staticStyle produced
FirstRead(cache) == IF firstStaticStyle = {} THEN cache ELSE firstStaticStyle

\* wrapper.render()
render ==
    /\ constructed
    /\ LET r == renderCall(kind, Held, _staticStyle)
       IN /\ _staticStyle' = r.cache
          /\ firstStaticStyle' = FirstRead(r.cache)
          /\ Returned("render", r.effects, r.ret)
    /\ UNCHANGED <<factoryState, screen, hostState>>
    /\ UNCHANGED <<kind, constructed, heap, _config, _previousConfig, previousText, _staticId,
                   _initialized, handlers, inputHistory>>

\* wrapper.staticStyle
readStaticStyle ==
    /\ constructed
    /\ LET g == staticStyleGetter(_staticStyle, Held)
       IN /\ _staticStyle' = g.cache
          /\ firstStaticStyle' = FirstRead(g.cache)
          /\ Returned("staticStyle", g.effects, g.cache)
    /\ UNCHANGED <<factoryState, screen, hostState>>
    /\ UNCHANGED <<kind, constructed, heap, _config, _previousConfig, previousText, _staticId,
                   _initialized, handlers, inputHistory>>

\* wrapper.dynamicStyle
readDynamicStyle ==
    /\ constructed
    /\ Returned("dynamicStyle", <<>>, {computeDynamicStyle(Held)})
    /\ UNCHANGED <<factoryState, screen, hostState>>
    /\ UNCHANGED <<kind, constructed, wrapperFields, handlers, firstStaticStyle,
                   inputHistory>>

\* wrapper.shouldHideComponent(), as a subclass or a test calls it
callShouldHideComponent ==
    /\ constructed
    /\ Returned("shouldHideComponent", <<>>, {shouldHideComponent(Held)})
    /\ UNCHANGED <<factoryState, screen, hostState>>
    /\ UNCHANGED <<kind, constructed, wrapperFields, handlers, firstStaticStyle,
                   inputHistory>>

\* wrapper.config()
readConfig ==
    /\ constructed
    /\ Returned("config", <<>>, {Held})
    /\ UNCHANGED <<factoryState, screen, hostState>>
    /\ UNCHANGED <<kind, constructed, wrapperFields, handlers, firstStaticStyle,
                   inputHistory>>

\* wrapper.staticId
readStaticId ==
    /\ constructed
    /\ Returned("staticId", <<>>, staticIdGetter(_staticId, Held))
    /\ UNCHANGED <<factoryState, screen, hostState>>
    /\ UNCHANGED <<kind, constructed, wrapperFields, handlers, firstStaticStyle,
                   inputHistory>>

\* the host's effect: wrapper.tlcTextChanged = tlcTextChanged
setTlcTextChanged(h) ==
    /\ constructed
    /\ kind = "label"
    /\ tlcTextChanged # h
    /\ tlcTextChanged' = h
    /\ Returned("set", <<>>, {})
    /\ UNCHANGED <<factoryState, screen, hostState>>
    /\ UNCHANGED <<kind, constructed, wrapperFields, tlcDestroy, onEvent,
                   tlcInit, tlcClick, firstStaticStyle, inputHistory>>

\* the host's effect: wrapper.tlcDestroy = tlcDestroy
setTlcDestroy(h) ==
    /\ constructed
    /\ kind = "label"
    /\ tlcDestroy # h
    /\ tlcDestroy' = h
    /\ Returned("set", <<>>, {})
    /\ UNCHANGED <<factoryState, screen, hostState>>
    /\ UNCHANGED <<kind, constructed, wrapperFields, tlcTextChanged, onEvent,
                   tlcInit, tlcClick, firstStaticStyle, inputHistory>>

\* the host's effect: wrapper.onEvent = onEvent
setOnEvent(h) ==
    /\ constructed
    /\ kind = "button"
    /\ onEvent # h
    /\ onEvent' = h
    /\ Returned("set", <<>>, {})
    /\ UNCHANGED <<factoryState, screen, hostState>>
    /\ UNCHANGED <<kind, constructed, wrapperFields, tlcTextChanged, tlcDestroy,
                   tlcInit, tlcClick, firstStaticStyle, inputHistory>>

\* the host's effect: wrapper.tlcClick = tlcClick
setTlcClick(h) ==
    /\ constructed
    /\ kind = "buttonSplit"
    /\ tlcClick # h
    /\ tlcClick' = h
    /\ Returned("set", <<>>, {})
    /\ UNCHANGED <<factoryState, screen, hostState>>
    /\ UNCHANGED <<kind, constructed, wrapperFields, tlcTextChanged, tlcDestroy,
                   tlcInit, onEvent, firstStaticStyle, inputHistory>>

\* the host's effect: wrapper.tlcInit = tlcInit
setTlcInit(h) ==
    /\ constructed
    /\ kind = "buttonSplit"
    /\ tlcInit # h
    /\ tlcInit' = h
    /\ Returned("set", <<>>, {})
    /\ UNCHANGED <<factoryState, screen, hostState>>
    /\ UNCHANGED <<kind, constructed, wrapperFields, tlcTextChanged, tlcDestroy,
                   tlcClick, onEvent, firstStaticStyle, inputHistory>>

\* the host's effect: wrapper.initializeEvent()
initializeEvent(now) ==
    /\ constructed
    /\ Returned("initializeEvent",
                initializeEventCall(kind, CHOOSE i \in _staticId : TRUE,
                                    onEvent, tlcInit, now), {})
    /\ UNCHANGED <<factoryState, screen, hostState>>
    /\ UNCHANGED <<kind, constructed, wrapperFields, handlers, firstStaticStyle,
                   inputHistory>>

\* the host's render pass: return <>{wrapper.render()}</>, whose output
\* replaces what is on screen
hostRender ==
    /\ constructed
    /\ LET r == renderCall(kind, Held, _staticStyle)
       IN /\ _staticStyle' = r.cache
          /\ firstStaticStyle' = FirstRead(r.cache)
          /\ Returned("render", r.effects, r.ret)
          /\ rendered' = r.ret
    /\ touch' = {}
    /\ UNCHANGED <<factoryState, hostState>>
    /\ UNCHANGED <<kind, constructed, heap, _config, _previousConfig, previousText, _staticId,
                   _initialized, handlers, inputHistory>>

\* the handler a button notifies of interactions, read when a closure runs
ClickHandler == IF kind = "button" THEN onEvent ELSE tlcClick

\* the user presses the button on screen
press(event, now) ==
    /\ constructed
    /\ \E el \in rendered :
        /\ el.type = "Button"
        /\ LET run == Dispatch(el, "onPress")
               effs == IF run = {} THEN <<>>
                       ELSE onPress(kind, (CHOOSE c \in run : TRUE).cfg,
                                    CHOOSE i \in _staticId : TRUE,
                                    ClickHandler, event, now)
           IN Returned("press", effs, {})
    /\ touch' = event
    /\ UNCHANGED <<factoryState, rendered, hostState>>
    /\ UNCHANGED <<kind, constructed, wrapperFields, handlers, firstStaticStyle,
                   inputHistory>>

\* the user presses and holds the button on screen
longPress(event, now) ==
    /\ constructed
    /\ \E el \in rendered :
        /\ el.type = "Button"
        /\ LET run == Dispatch(el, "onLongPress")
               effs == IF run = {} THEN <<>>
                       ELSE onLongPress(kind, (CHOOSE c \in run : TRUE).cfg,
                                        CHOOSE i \in _staticId : TRUE,
                                        ClickHandler, event, now)
           IN Returned("longPress", effs, {})
    /\ touch' = event
    /\ UNCHANGED <<factoryState, rendered, hostState>>
    /\ UNCHANGED <<kind, constructed, wrapperFields, handlers, firstStaticStyle,
                   inputHistory>>

-----------------------------------------------------------------------------
(* Hooks and handlers that throw *)

\* caller-supplied functions that throw when they are called
ThrowingHooks == {"initThrows", "destroyThrows", "setStateThrows"}
ThrowingHandler == "handlerThrows"

\* a call of a function that throws, and the exception leaving a method
Throws(e) ==
    \/ e.kind \in {"init", "destroy", "setState"} /\ e.hook \in ThrowingHooks
    \/ e.kind = "tlcTextChanged" /\ e.to = ThrowingHandler
    \/ e.kind = "ngIf"
Thrown(effs) == \E i \in DOMAIN effs : Throws(effs[i])
Exception == [kind |-> "throw"]

\* the calls a method makes until one of them throws: nothing in these
\* methods catches, so the exception leaves the method
Until(effs) ==
    LET first == CHOOSE i \in DOMAIN effs :
                    Throws(effs[i]) /\ \A j \in 1..(i - 1) : ~Throws(effs[j])
    IN SubSeq(effs, 1, first) \o <<Exception>>

\* what a method leaves when the calls it made are effs: the fields as they
\* were assigned when the exception left it, or as the method leaves them
Outcome(effs, atThrow, atReturn) ==
    IF Thrown(effs)
    THEN [thrown |-> TRUE, effects |-> Until(effs)] @@ atThrow
    ELSE [thrown |-> FALSE] @@ atReturn

\* useLifecycle assigns _config, _previousConfig and _staticId, calls init()
\* and only then sets _initialized
Constructed(initialized, r) ==
    Outcome(r.effects, [r EXCEPT !.initialized = initialized], r)

\* new Wrapper(input) with an init hook that may throw
tryConstructor(k, h, input, initialized, handler) ==
    Constructed(initialized, constructorOf(k, h, input, initialized, handler))

\* updateConfig assigns _config, runs onConfigChange and only then replaces
\* _previousConfig
Updated(h, previousRef, config, u) ==
    Outcome(u.effects,
            [heap |-> h, config |-> config, previousConfig |-> previousRef], u)

\* updateConfig(config) with a hook or a handler that may throw
tryUpdateConfig(k, h, previousRef, config, handler) ==
    Updated(h, previousRef, config,
            updateConfigOf(k, h, previousRef, config, handler))

\* cleanup() leaves the flag alone until destroy() has returned
CleanedUp(initialized, d) ==
    Outcome(d.effects, [initialized |-> initialized], d)

\* cleanup() clearing the flag before it calls destroy()
tryCleanupFlagFirst(k, cfg, initialized, handler) ==
    CleanedUp(FALSE, cleanupCall(k, cfg, initialized, handler))

\* cleanup() with a destroy hook that may throw
tryCleanup(k, cfg, initialized, handler) ==
    CleanedUp(initialized, cleanupCall(k, cfg, initialized, handler))

\* render() with an ngIf predicate that may throw: shouldHideComponent calls
\* it, unless visible is false, before render reads any style
tryRender(k, cfg, cache) ==
    IF ~IsInvisible(cfg) /\ Has(cfg, "ngIf") /\ cfg.ngIf = NgIfThrows
    THEN Outcome(<<[kind |-> "ngIf"]>>, [cache |-> cache, ret |-> {}], {})
    ELSE [thrown |-> FALSE] @@ renderCall(k, cfg, cache)

\* the caller of a constructor that throws is left without an instance
Constructs(c, a, r) ==
    IF r.thrown
    THEN /\ Returned("new", r.effects, {})
         /\ UNCHANGED <<constructed, wrapperFields, constructedWith,
                        inputHistory>>
    ELSE /\ heap' = Collect(r.heap, {r.config, r.previousConfig})
         /\ _config' = r.config
         /\ _previousConfig' = r.previousConfig
         /\ _staticId' = r.staticId
         /\ _initialized' = r.initialized
         /\ Returned("new", r.effects, {})
         /\ constructed' = TRUE
         /\ constructedWith' =
               [k \in DOMAIN c \cap {"id", "init", "destroy"} |-> c[k]]
         /\ inputs' = Passed(a, c)
         /\ UNCHANGED <<previousText, _staticStyle, expected>>

\* new Wrapper(input)
newOrThrow(c) ==
    /\ ~constructed
    /\ calls.init < MaxAttempts
    /\ Constructs(c, FreshAddr,
                  tryConstructor(kind, [heap EXCEPT ![FreshAddr] = c], FreshAddr,
                                 _initialized, None))
    /\ UNCHANGED <<factoryState, screen, hostState>>
    /\ UNCHANGED <<kind, handlers, firstStaticStyle>>

Updates(c, a, r) ==
    /\ heap' = Collect(r.heap, {r.config, r.previousConfig})
    /\ _config' = r.config
    /\ _previousConfig' = r.previousConfig
    /\ Returned("updateConfig", r.effects, {})
    /\ inputs' = Passed(a, c)

\* wrapper.updateConfig(c)
updateOrThrow(c) ==
    /\ constructed
    /\ calls.updateConfig < MaxUpdates
    /\ Updates(c, FreshAddr,
               tryUpdateConfig(kind, [heap EXCEPT ![FreshAddr] = c],
                               _previousConfig, FreshAddr, tlcTextChanged))
    /\ UNCHANGED <<factoryState, screen, hostState>>
    /\ UNCHANGED <<kind, constructed, previousText, _staticId, _staticStyle, _initialized,
                   handlers, firstStaticStyle, constructedWith, expected>>

CleansUp(r) ==
    /\ _initialized' = r.initialized
    /\ Returned("cleanup", r.effects, {})

\* wrapper.cleanup()
cleanupOrThrow ==
    /\ constructed
    /\ calls.cleanup < MaxCleanups
    /\ CleansUp(tryCleanup(kind, Held, _initialized,
                           IF kind = "button" THEN onEvent ELSE tlcDestroy))
    /\ UNCHANGED <<factoryState, screen, hostState>>
    /\ UNCHANGED <<kind, constructed, heap, _config, _previousConfig, previousText, _staticId,
                   _staticStyle, handlers, firstStaticStyle, inputHistory>>

Renders(r) ==
    /\ _staticStyle' = r.cache
    /\ firstStaticStyle' = FirstRead(r.cache)
    /\ Returned("render", r.effects, r.ret)

\* wrapper.render()
renderOrThrow ==
    /\ constructed
    /\ Renders(tryRender(kind, Held, _staticStyle))
    /\ UNCHANGED <<factoryState, screen, hostState>>
    /\ UNCHANGED <<kind, constructed, heap, _config, _previousConfig, previousText, _staticId,
                   _initialized, handlers, inputHistory>>

-----------------------------------------------------------------------------
(* The host components TLCLabel and TLCButton *)

\* the fields of the wrapper instance the host holds, as one value
Wrapper ==
    [heap |-> heap, config |-> _config, previousConfig |-> _previousConfig,
     previousText |-> previousText,
     staticId |-> _staticId, staticStyle |-> _staticStyle,
     initialized |-> _initialized, tlcDestroy |-> tlcDestroy,
     tlcTextChanged |-> tlcTextChanged, onEvent |-> onEvent,
     tlcInit |-> tlcInit, tlcClick |-> tlcClick]

\* the handler fields after the host's handler effects ran with listener h,
\* which the host passes for every callback prop of the component
Attached(k, w, h) ==
    IF TakesOnEvent(k) THEN [w EXCEPT !.onEvent = h]
    ELSE IF k = "label"
    THEN [w EXCEPT !.tlcTextChanged = h, !.tlcInit = h, !.tlcDestroy = h]
    ELSE [w EXCEPT !.tlcClick = h, !.tlcInit = h, !.tlcDestroy = h]

DestroyListener(k, w) == IF TakesOnEvent(k) THEN w.onEvent ELSE w.tlcDestroy
ChangeListener(k, w) == IF TakesOnEvent(k) THEN w.onEvent ELSE w.tlcTextChanged

\* a call the host makes on wrapper instance n, and what a call invoked
Mark(method, n) == [kind |-> method, instance |-> n]
Tagged(effs, n) == [i \in DOMAIN effs |-> effs[i] @@ ("instance" :> n)]

\* useMemo(() => new Wrapper(config, ...), [])
MemoForLife(k, isMounted, w, a, c, h) ==
    LET passed == [w.heap EXCEPT ![a] = c]
        made == constructorOf(k, passed, a, FALSE, h)
    IN IF ~isMounted
       THEN [fresh |-> TRUE, effects |-> made.effects,
             w |-> [heap |-> made.heap, config |-> made.config,
                    previousConfig |-> made.previousConfig,
                    previousText |-> PreviousTextOf(made),
                    staticId |-> made.staticId, staticStyle |-> {},
                    initialized |-> made.initialized, tlcDestroy |-> None,
                    tlcTextChanged |-> None,
                    onEvent |-> IF TakesOnEvent(k) THEN h ELSE None,
                    tlcInit |-> None, tlcClick |-> None]]
       ELSE [fresh |-> FALSE, effects |-> <<>>, w |-> [w EXCEPT !.heap = passed]]

\* useMemo(() => new Wrapper(config, ...), [config.id])
Memo(k, isMounted, w, a, c, h) ==
    LET fresh == ~isMounted \/ w.heap[w.config].id # c.id
        passed == [w.heap EXCEPT ![a] = c]
        made == constructorOf(k, passed, a, FALSE, h)
    IN IF fresh
       THEN [fresh |-> TRUE, effects |-> made.effects,
             w |-> [heap |-> made.heap, config |-> made.config,
                    previousConfig |-> made.previousConfig,
                    previousText |-> PreviousTextOf(made),
                    staticId |-> made.staticId, staticStyle |-> {},
                    initialized |-> made.initialized, tlcDestroy |-> None,
                    tlcTextChanged |-> None,
                    onEvent |-> IF TakesOnEvent(k) THEN h ELSE None,
                    tlcInit |-> None, tlcClick |-> None]]
       ELSE [fresh |-> FALSE, effects |-> <<>>, w |-> [w EXCEPT !.heap = passed]]

\* the onEvent label hook notifying after it calls setState
UnifiedLabelSetStateFirst(previousConfig, currentConfig, handler, staticId, now) ==
    IF Field(previousConfig, "text") # Field(currentConfig, "text")
    THEN (IF Has(currentConfig, "setState")
          THEN <<SetStateCall(currentConfig.setState, currentConfig)>>
          ELSE <<>>)
         \o Optional(handler, EventCall("textChanged", handler,
                [type |-> "textChanged", componentId |-> staticId,
                 data |-> [text |-> Field(currentConfig, "text"),
                           previousText |-> Field(previousConfig, "text")],
                 timestamp |-> now]))
    ELSE <<>>

\* TLCLabelWrapper.onConfigChange(previousConfig, currentConfig) of the
\* onEvent label
UnifiedLabelOnConfigChange(previousConfig, currentConfig, handler, staticId, now) ==
    IF Field(previousConfig, "text") # Field(currentConfig, "text")
    THEN Optional(handler, EventCall("textChanged", handler,
                [type |-> "textChanged", componentId |-> staticId,
                 data |-> [text |-> Field(currentConfig, "text"),
                           previousText |-> Field(previousConfig, "text")],
                 timestamp |-> now]))
         \o (IF Has(currentConfig, "setState")
             THEN <<SetStateCall(currentConfig.setState, currentConfig)>>
             ELSE <<>>)
    ELSE <<>>

\* updateConfig(config) of the base class, dispatching the hook of the
\* onEvent label
UnifiedUpdateConfig(h, previousRef, config, handler, staticId, now) ==
    LET snap == Snapshot(h, config)
    IN [heap |-> snap.heap, config |-> config, previousConfig |-> snap.ref,
        effects |-> IF previousRef # NullAddr
                    THEN <<ConfigChangeCall(h[previousRef], h[config])>>
                         \o UnifiedLabelOnConfigChange(h[previousRef], h[config],
                                handler, CHOOSE i \in staticId : TRUE, now)
                    ELSE <<>>]

\* useEffect(() => wrapper.updateConfig(config), [config, wrapper])
UpdateEffect(k, run, w, a, now) ==
    LET u == IF k = "labelUnified"
             THEN UnifiedUpdateConfig(w.heap, w.previousConfig, a, w.onEvent,
                                      w.staticId, now)
             ELSE IF k = "coreLabel"
             THEN CoreLabelUpdateConfig(w.heap, a, w.onEvent,
                                        CHOOSE i \in w.staticId : TRUE,
                                        w.previousText, now)
             ELSE updateConfigOf(k, w.heap, w.previousConfig, a,
                                 ChangeListener(k, w))
    IN IF run
       THEN [effects |-> u.effects,
             w |-> [w EXCEPT !.heap = u.heap, !.config = u.config,
                             !.previousConfig = u.previousConfig,
                             !.previousText =
                                 IF k = "coreLabel" THEN u.previousText ELSE @]]
       ELSE [effects |-> <<>>, w |-> w]

\* the component body: the memo, then wrapper.render()
Body(k, memo, n) ==
    LET r == renderCall(k, memo.w.heap[memo.w.config], memo.w.staticStyle)
    IN [w |-> [memo.w EXCEPT !.staticStyle = r.cache],
        effects |-> (IF memo.fresh
                     THEN <<Mark("new", n)>> \o Tagged(memo.effects, n)
                     ELSE <<>>)
                    \o <<Mark("render", n)>> \o Tagged(r.effects, n),
        ret |-> r.ret]

\* return () => wrapper.cleanup(), of the wrapper a new one replaces
Teardown(k, replaced, w, born) ==
    IF replaced
    THEN <<Mark("cleanup", born)>>
         \o Tagged(cleanupCall(k, w.heap[w.config], w.initialized,
                               DestroyListener(k, w)).effects, born)
    ELSE <<>>

\* the initialization effect without its dependency list
InitEffectOnEveryRender(k, fresh, w, n, now) ==
    <<Mark("initializeEvent", n)>>
    \o Tagged(initializeEventCall(k, CHOOSE i \in w.staticId : TRUE,
                                  w.onEvent, w.tlcInit, now), n)

\* useEffect(() => wrapper.initializeEvent(), [wrapper])
InitEffect(k, fresh, w, n, now) ==
    IF fresh /\ k # "coreLabel"
    THEN <<Mark("initializeEvent", n)>>
         \o Tagged(initializeEventCall(k, CHOOSE i \in w.staticId : TRUE,
                                       w.onEvent, w.tlcInit, now), n)
    ELSE <<>>

\* the effects from the handler effects on, after the update effect left u
Handled(k, fresh, n, h, now, before, element, run, u) ==
    [w |-> Attached(k, u.w, h),
     fresh |-> fresh,
     effects |-> before
                 \o (IF run THEN <<Mark("updateConfig", n)>> \o Tagged(u.effects, n)
                     ELSE <<>>)
                 \o InitEffect(k, fresh, Attached(k, u.w, h), n, now),
     ret |-> element]

\* the effects of a render, in the order of their declaration, after the
\* teardown of the effects of a replaced wrapper
Commit(k, fresh, n, a, h, now, run, body, teardown) ==
    Handled(k, fresh, n, h, now, body.effects \o teardown, body.ret, run,
            UpdateEffect(k, run, body.w, a, now))

\* the number of the instance the memo gives, after born earlier ones
Instance(memo, born) == IF memo.fresh THEN born + 1 ELSE born

\* the render that made memo, by a host that held wrapper w before
Render(k, isMounted, w, born, a, h, now, memo) ==
    Commit(k, memo.fresh, Instance(memo, born), a, h, now,
           memo.fresh \/ a # w.config, Body(k, memo, Instance(memo, born)),
           Teardown(k, memo.fresh /\ isMounted, w, born))

\* The render of the label of src/components: its wrapper holds a copy of
\* the props object, so the update effect compares the props object with
\* the one of the previous render, at address props.
CoreRender(isMounted, w, born, props, a, h, now, memo) ==
    Commit("coreLabel", memo.fresh, Instance(memo, born), a, h, now,
           memo.fresh \/ a # props,
           Body("coreLabel", memo, Instance(memo, born)),
           Teardown("coreLabel", memo.fresh /\ isMounted, w, born))

\* the wrapper fields with the objects nothing refers to dropped
Kept(p) ==
    [p EXCEPT !.w.heap = Collect(p.w.heap, {p.w.config, p.w.previousConfig})]

\* One render of the component with props config (the object at a, of
\* content c) and listener h, by a host whose previous render left wrapper
\* w, when born instances were created before.
Pass(k, isMounted, w, born, a, c, h, now) ==
    Kept(Render(k, isMounted, w, born, a, h, now, Memo(k, isMounted, w, a, c, h)))

CorePass(isMounted, w, born, props, a, c, h, now) ==
    Kept(CoreRender(isMounted, w, born, props, a, h, now,
                    Memo("coreLabel", isMounted, w, a, c, h)))

\* the teardown of the effects when the component unmounts
Unmount(k, w, born) ==
    LET d == cleanupCall(k, w.heap[w.config], w.initialized, DestroyListener(k, w))
    IN [w |-> [w EXCEPT !.initialized = d.initialized],
        effects |-> <<Mark("cleanup", born)>> \o Tagged(d.effects, born)]

\* the wrapper instances the host component has created
Born == Count(log, "new")

\* the variables of the wrapper instance take the fields of w
Becomes(w) ==
    /\ heap' = w.heap
    /\ _config' = w.config
    /\ _previousConfig' = w.previousConfig
    /\ previousText' = w.previousText
    /\ _staticId' = w.staticId
    /\ _staticStyle' = w.staticStyle
    /\ _initialized' = w.initialized
    /\ tlcDestroy' = w.tlcDestroy
    /\ tlcTextChanged' = w.tlcTextChanged
    /\ onEvent' = w.onEvent
    /\ tlcInit' = w.tlcInit
    /\ tlcClick' = w.tlcClick

\* the host holds what render pass p of configuration c left
Passes(name, c, p) ==
    /\ Becomes(p.w)
    /\ Returned(name, p.effects, p.ret)
    /\ rendered' = p.ret
    /\ log' = log \o p.effects
    /\ constructedWith' =
          IF p.fresh
          THEN [f \in DOMAIN c \cap {"id", "init", "destroy"} |-> c[f]]
          ELSE constructedWith
    /\ firstStaticStyle' = IF p.fresh THEN p.w.staticStyle
                           ELSE FirstRead(p.w.staticStyle)

\* the props object of the previous render, and an object the parent has
\* just created
LastProps == IF inputs = <<>> THEN NullAddr ELSE inputs[1].ref
FreshProps ==
    IF kind = "coreLabel" THEN CHOOSE a \in CallerAddrs : a # LastProps
    ELSE FreshAddr

\* React renders the component with a configuration object and a listener
Rendering(name, a, c, h, now) ==
    /\ Count(log, "render") < MaxPasses
    /\ Passes(name, c,
              IF kind = "coreLabel"
              THEN CorePass(mounted, Wrapper, Born, LastProps, a, c, h, now)
              ELSE Pass(kind, mounted, Wrapper, Born, a, c, h, now))
    /\ constructed' = TRUE
    /\ mounted' = TRUE
    /\ touch' = {}
    /\ inputs' = Passed(a, c)
    /\ UNCHANGED <<kind, factoryState, expected>>

RenderStep(a, c, h, now) == Rendering("renderPass", a, c, h, now)

renderPass(a, c, h, now) ==
    RenderStep(a, c, h, now) /\ UNCHANGED <<twin, pending>>

\* React unmounts the component
Unmounts(name, u) ==
    /\ Becomes(u.w)
    /\ Returned(name, u.effects, {})
    /\ log' = log \o u.effects

UnmountStep ==
    /\ mounted
    /\ Unmounts("unmount", Unmount(kind, Wrapper, Born))
    /\ mounted' = FALSE
    /\ rendered' = {}
    /\ touch' = {}
    /\ UNCHANGED <<kind, constructed, factoryState, firstStaticStyle,
                   inputHistory>>

unmount == UnmountStep /\ UNCHANGED <<twin, pending>>

\* The onEvent label component, given the renders and the unmounts of the
\* split-callback one: its wrapper and the calls made on it and by it.
NoWrapper ==
    [heap |-> [a \in Addrs |-> Free], config |-> NullAddr,
     previousConfig |-> NullAddr, previousText |-> {}, staticId |-> {},
     staticStyle |-> {},
     initialized |-> FALSE, tlcDestroy |-> None, tlcTextChanged |-> None,
     onEvent |-> None, tlcInit |-> None, tlcClick |-> None]
Twin == IF twin = {} THEN [w |-> NoWrapper, log |-> <<>>]
        ELSE CHOOSE t \in twin : TRUE
TwinAfter(p) == {[w |-> p.w, log |-> Twin.log \o p.effects]}

renderBoth(a, c, h, now) ==
    /\ RenderStep(a, c, h, now)
    /\ twin' = TwinAfter(Pass("labelUnified", mounted, Twin.w,
                               Count(Twin.log, "new"), a, c, h, now))
    /\ UNCHANGED pending

unmountBoth ==
    /\ UnmountStep
    /\ UNCHANGED pending
    /\ twin' = TwinAfter(Unmount("labelUnified", Twin.w, Count(Twin.log, "new")))

\* wrapper.cleanup() called again on the wrappers of the unmounted components
cleanupBoth ==
    /\ constructed
    /\ ~mounted
    /\ Cardinality({i \in DOMAIN log : log[i] = Mark("cleanup", Born)})
            < MaxCleanups
    /\ Unmounts("cleanup", Unmount(kind, Wrapper, Born))
    /\ twin' = TwinAfter(Unmount("labelUnified", Twin.w, Count(Twin.log, "new")))
    /\ UNCHANGED <<kind, constructed, factoryState, firstStaticStyle,
                   inputHistory, mounted, screen, pending>>

\* A parent whose setState callback makes the configuration it receives
\* the next props of the label: the state update of a callback is applied
\* after the effects of the render have run.
Feedback == "feedback"
Scheduled(effs) ==
    {effs[i].arg : i \in {j \in DOMAIN effs : /\ effs[j].kind = "setState"
                                                /\ effs[j].hook = Feedback}}

\* the listener of text changes attached to the wrapper
ChangeHandler == IF TakesOnEvent(kind) THEN onEvent ELSE tlcTextChanged

\* the parent renders the label with a configuration of its own
parentRender(c, h, now) ==
    /\ pending = {}
    /\ RenderStep(FreshProps, c, h, now)
    /\ pending' = Scheduled(effects')
    /\ UNCHANGED twin

\* the parent renders the label with the configuration setState received:
\* the object itself, or a copy of it
feedbackRender(copy, now) ==
    /\ pending # {}
    /\ \E c \in pending :
          Rendering(Feedback, IF copy THEN FreshProps ELSE _config, c,
                    ChangeHandler, now)
    /\ pending' = Scheduled(effects')
    /\ UNCHANGED twin

-----------------------------------------------------------------------------
(* Specifications: one wrapper instance driven by a host *)

MaybeHandler == Handlers \cup {None}
OneHandler == {"h1", None}

construct(configs, hs) ==
    ~constructed /\ \E c \in configs, h \in hs : Constructor(c, h)

update(configs) ==
    constructed /\ calls.updateConfig < MaxUpdates
        /\ \E c \in configs : updateConfig(c)

\* lifecycle: construction, updates and teardown
Next ==
    \/ construct(LifecycleConfigs(kind), OneHandler)
    \/ update(LifecycleConfigs(kind))
    \/ updateConfigSameObject
    \/ cleanup
    \/ \E h \in OneHandler : setTlcDestroy(h)

Spec == Init /\ [][Next]_vars

\* change detection: updates with fresh, re-passed and mutated objects
NextChange ==
    \/ construct(ChangeConfigs(kind), {None})
    \/ update(ChangeConfigs(kind))
    \/ updateConfigSameObject
    \/ \E t \in Texts : hostMutatesText(t)
    \/ \E h \in MaybeHandler : setTlcTextChanged(h)

SpecChange == Init /\ [][NextChange]_vars

\* style reads and renders interleaved with updates
NextCache ==
    \/ construct(CacheConfigs(kind), {None})
    \/ update(CacheConfigs(kind))
    \/ render
    \/ readStaticStyle
    \/ readDynamicStyle

SpecCache == Init /\ [][NextCache]_vars

\* the visibility gate and the styles over every combination of their inputs
NextStyle ==
    \/ construct(WideConfigs(kind), {None})
    \/ render
    \/ callShouldHideComponent
    \/ readStaticStyle
    \/ readDynamicStyle

SpecStyle == Init /\ [][NextStyle]_vars

\* identity: updates with another id, renders and teardown
NextIdentity ==
    \/ construct(IdentityConfigs(kind), {None})
    \/ update(IdentityConfigs(kind))
    \/ render
    \/ cleanup
    \/ readStaticId

SpecIdentity == Init /\ [][NextIdentity]_vars

\* the held configuration: complete and incomplete ones, passed and read back
NextHold ==
    \/ construct(PartialConfigs(kind), {None})
    \/ update(PartialConfigs(kind))
    \/ updateConfigSameObject
    \/ readConfig

\* the wrappers of both base classes
InitHold ==
    /\ kind \in Kinds \cup {"coreButton"}
    /\ Unconstructed
    /\ objects = EmptyObject
    /\ created = <<>>
    /\ assigned = {}

SpecHold == InitHold /\ [][NextHold]_vars

\* a wrapper whose hooks and text-changed handler may throw
NextThrow ==
    \/ ~constructed /\ calls.init < MaxAttempts
            /\ \E c \in ThrowConfigs(kind) : newOrThrow(c)
    \/ constructed /\ calls.updateConfig < MaxUpdates
            /\ \E c \in ThrowConfigs(kind) : updateOrThrow(c)
    \/ setTlcTextChanged(ThrowingHandler)
    \/ renderOrThrow
    \/ cleanupOrThrow

SpecThrow == Init /\ [][NextThrow]_vars

\* the components, not yet mounted
InitHost ==
    /\ kind \in Kinds \cup {"buttonSplit"}
    /\ Unconstructed
    /\ objects = EmptyObject
    /\ created = <<>>
    /\ assigned = {}

\* the parent renders the component with a configuration object it has just
\* built
renderWithNewObject ==
    \E c \in HostConfigs(kind), h \in OneHandler, now \in Clock :
        renderPass(FreshAddr, c, h, now)

\* the parent renders the component with the object of the previous render
renderWithSameObject ==
    /\ mounted
    /\ \E h \in OneHandler, now \in Clock : renderPass(_config, Held, h, now)

\* the host components: mount, re-renders and unmount
NextHost ==
    \/ renderWithNewObject
    \/ renderWithSameObject
    \/ unmount

SpecHost == InitHost /\ [][NextHost]_vars

\* one of the two label components, not yet mounted
InitLoop ==
    /\ kind \in {"label", "labelUnified", "coreLabel"}
    /\ Unconstructed
    /\ objects = EmptyObject
    /\ created = <<>>
    /\ assigned = {}

\* a label whose parent feeds the configuration setState receives back
NextLoop ==
    \/ \E c \in LoopConfigs, h \in MaybeHandler, now \in Clock :
            parentRender(c, h, now)
    \/ \E copy \in BOOLEAN, now \in Clock : feedbackRender(copy, now)

SpecLoop == InitLoop /\ [][NextLoop]_vars

\* the two label components, not yet mounted
InitTwin == InitHost /\ kind = "label"

\* the two label components rendered with the same props and unmounted
\* together
NextTwin ==
    \/ \E c \in LabelTwinConfigs, h \in OneHandler, now \in Clock :
            renderBoth(FreshAddr, c, h, now)
    \/ mounted /\ \E h \in OneHandler, now \in Clock :
            renderBoth(_config, Held, h, now)
    \/ unmountBoth
    \/ cleanupBoth

SpecTwin == InitTwin /\ [][NextTwin]_vars

\* the two button components, each starting with no wrapper instance
ButtonKinds == {"button", "buttonSplit"}

InitPress ==
    /\ kind \in ButtonKinds
    /\ Unconstructed
    /\ objects = EmptyObject
    /\ created = <<>>
    /\ assigned = {}

\* interactions: renders, presses and long presses interleaved with updates
NextPress ==
    \/ construct(PressConfigs, OneHandler)
    \/ update(PressConfigs)
    \/ hostRender
    \/ \E e \in GestureEvents, now \in Clock : press(e, now)
    \/ \E e \in GestureEvents, now \in Clock : longPress(e, now)
    \/ \E now \in Clock : initializeEvent(now)
    \/ \E h \in OneHandler : setOnEvent(h)
    \/ \E h \in OneHandler : setTlcClick(h)
    \/ \E h \in OneHandler : setTlcInit(h)

SpecPress == InitPress /\ [][NextPress]_vars

\* a button whose host passes configurations of another id to updateConfig
NextRename ==
    \/ construct(RenameConfigs, OneHandler)
    \/ update(RenameConfigs)
    \/ hostRender
    \/ \E e \in GestureEvents, now \in Clock : press(e, now)
    \/ \E e \in GestureEvents, now \in Clock : longPress(e, now)
    \/ \E h \in OneHandler : setOnEvent(h)
    \/ \E h \in OneHandler : setTlcClick(h)

SpecRename == InitPress /\ [][NextRename]_vars

-----------------------------------------------------------------------------
(* Lifecycle hooks *)

Invoked(k) == Count(effects, k) > 0

\* C1: a wrapper constructed with a configuration carrying an init hook has
\* invoked init exactly once in every later state, whatever number of
\* updateConfig calls were made; no updateConfig call invokes init, also when
\* the new configuration carries another init hook.
C1_InitExactlyOnce ==
    /\ calls.init <= 1
    /\ (constructed /\ Has(constructedWith, "init")) => calls.init = 1
    /\ (constructed /\ ~Has(constructedWith, "init")) => calls.init = 0
    /\ op = "updateConfig" => ~Invoked("init")

C1_Witness ==
    /\ op = "updateConfig"
    /\ calls.updateConfig >= 2
    /\ calls.cleanup = 0
    /\ Has(constructedWith, "init")
    /\ Has(Held, "init")
    /\ Held.init # constructedWith.init
    /\ calls.init = 1

\* C2, as stated: when init fired at construction, the first cleanup() invokes
\* the destroy hook, so that after it destroy has run exactly once; only the
\* first cleanup() ever invokes it; it is never invoked without init, nor by
\* another operation.
C2_DestroyByFirstCleanup ==
    /\ calls.destroy <= 1
    /\ Invoked("destroy") => op = "cleanup" /\ calls.cleanup = 1
    /\ calls.init = 0 => calls.destroy = 0
    /\ (calls.cleanup >= 1 /\ calls.init = 1 /\ Has(constructedWith, "destroy"))
          => calls.destroy = 1

\* C2, amended: destroy is invoked at most once, only by cleanup() and only
\* when init fired at construction; the cleanup() that invokes it is the first
\* one at which the held configuration carries a destroy hook, and the hook
\* invoked is that configuration's.
C2_DestroyOnceByCleanup ==
    /\ calls.destroy <= 1
    /\ Invoked("destroy") => op = "cleanup"
    /\ calls.init = 0 => calls.destroy = 0
    /\ op = "cleanup" =>
          LET n == Count(effects, "destroy")
          IN /\ n = 1 <=> (Has(Held, "destroy") /\ calls.init = 1
                              /\ calls.destroy - n = 0)
             /\ \A i \in DOMAIN effects :
                   effects[i].kind = "destroy" => effects[i].hook = Held.destroy

C2_Witness ==
    /\ op = "cleanup"
    /\ calls.cleanup = 2
    /\ calls.updateConfig >= 1
    /\ calls.init = 1
    /\ calls.destroy = 1
    /\ Has(Held, "destroy")
    /\ ~Invoked("destroy")

-----------------------------------------------------------------------------
(* Visibility gate and styles *)

Given(cfg, k, v) == Has(cfg, k) /\ cfg[k] = v

\* C3: whenever the held configuration has visible = false, or ngIf = false,
\* or an ngIf predicate returning false, render() of a label or a button
\* returns null, whatever disabled, stl and the other fields are.
C3_HiddenRendersNull ==
    (op = "render"
        /\ (\/ Given(Held, "visible", FALSE)
            \/ Given(Held, "ngIf", NgIfBool(FALSE))
            \/ Given(Held, "ngIf", NgIfFn(FALSE))))
    => ret = {}

C3_Witness ==
    /\ op = "render"
    /\ kind = "button"
    /\ Given(Held, "ngIf", NgIfFn(FALSE))
    /\ Given(Held, "visible", TRUE)
    /\ Given(Held, "disabled", TRUE)
    /\ Has(Held, "stl")
    /\ ret = {}

DisabledOpacityOf(cfg) ==
    IF Has(cfg, "disabledOpacity") THEN cfg.disabledOpacity ELSE "0.6"

\* C8: in the dynamic style a state-driven value wins over the style override
\* of the same property: with disabled = true and stl.opacity given the
\* opacity is the disabled-state opacity; with visible = false and
\* stl.display given the display is 'none'.
C8_StateBeatsOverride ==
    op = "dynamicStyle" =>
        \A style \in ret :
            /\ (Given(Held, "disabled", TRUE) /\ Has(Held, "stl")
                    /\ Has(Held.stl, "opacity"))
               => Given(style, "opacity", DisabledOpacityOf(Held))
            /\ (Given(Held, "visible", FALSE) /\ Has(Held, "stl")
                    /\ Has(Held.stl, "display"))
               => Given(style, "display", "none")

C8_Witness ==
    /\ op = "dynamicStyle"
    /\ Given(Held, "disabled", TRUE)
    /\ Given(Held, "visible", FALSE)
    /\ ~Has(Held, "disabledOpacity")
    /\ Has(Held, "stl")
    /\ Given(Held.stl, "opacity", "0.9")
    /\ Given(Held.stl, "display", "flex")
    /\ \E style \in ret : Given(style, "opacity", "0.6") /\ Given(style, "display", "none")

\* C9: with disabled = true the opacity of the dynamic style is disabledOpacity
\* whenever the configuration defines it (the value 0 included) and 0.6
\* otherwise, and its color is disabledTextColor when the configuration gives
\* one (a non-empty string); with disabled not true the dynamic style has no
\* color, and an opacity only as given by stl.opacity.
C9_DisabledStyle ==
    op = "dynamicStyle" =>
        \A style \in ret :
            IF Given(Held, "disabled", TRUE)
            THEN /\ Given(style, "opacity", DisabledOpacityOf(Held))
                 /\ Field(style, "color") = Field(Held, "disabledTextColor") \ {""}
            ELSE /\ ~Has(style, "color")
                 /\ Field(style, "opacity") =
                        (IF Has(Held, "stl") THEN Field(Held.stl, "opacity") ELSE {})

C9_Witness ==
    /\ op = "dynamicStyle"
    /\ Given(Held, "disabled", TRUE)
    /\ Given(Held, "disabledOpacity", "0")
    /\ Given(Held, "disabledTextColor", "#999")
    /\ \E style \in ret : Given(style, "opacity", "0") /\ Given(style, "color", "#999")

\* the static style inside a rendered element
StaticOf(e) == IF e.type = "Text" THEN e.style[1] ELSE e.contentStyle[1]

\* C10: computeStaticStyle runs at most once per instance; the first read of
\* staticStyle computes the value and every later read, directly or by
\* render(), returns that same value whatever updateConfig calls came between.
C10_StaticStyleOnce ==
    /\ calls.computeStaticStyle <= 1
    /\ op = "staticStyle" => ret # {} /\ ret = firstStaticStyle
    /\ op = "render" => \A e \in ret : {StaticOf(e)} = firstStaticStyle

C10_Witness ==
    /\ op = "staticStyle"
    /\ calls.updateConfig >= 2
    /\ calls.computeStaticStyle = 1
    /\ ~Invoked("computeStaticStyle")
    /\ ret = {EmptyObject}
    /\ Given(Held, "stl", StyleA)

-----------------------------------------------------------------------------
(* Change detection *)

TextOf(cs) == UNION {Field(c, "text") : c \in cs}
Positions(k) == {i \in DOMAIN effects : effects[i].kind = k}

\* C4: an updateConfig on a label whose text differs from the text of the
\* snapshot taken by the previous call emits exactly one text-changed
\* notification to the attached handler, with text = the new text and
\* previousText = the snapshot's text; when the new configuration has a
\* setState callback it is called exactly once, with the new configuration,
\* after the notification, and no setState is called otherwise.
C4_TextChangedOnce ==
    (op = "updateConfig" /\ kind = "label" /\ TextOf(PrevInput) # TextOf(LastInput))
    => /\ tlcTextChanged # None =>
            \E i \in DOMAIN effects :
                /\ Positions("tlcTextChanged") = {i}
                /\ effects[i] = TextChangedCall(tlcTextChanged, TextOf(LastInput),
                                                TextOf(PrevInput))
       /\ \A c \in LastInput :
            IF Has(c, "setState")
            THEN \E j \in DOMAIN effects :
                    /\ Positions("setState") = {j}
                    /\ effects[j] = SetStateCall(c.setState, c)
                    /\ \A i \in Positions("tlcTextChanged") : i < j
            ELSE Positions("setState") = {}

C4_Witness ==
    /\ op = "updateConfig"
    /\ TextOf(PrevInput) = {"A"}
    /\ TextOf(LastInput) = {"B"}
    /\ Len(effects) = 3
    /\ effects[2] = TextChangedCall("h1", {"B"}, {"A"})
    /\ effects[3].kind = "setState"

\* C5: the text-changed notifications delivered and the setState calls made
\* so far are as many as the consecutive inputs (the construction
\* configuration first) whose text differs, counted while a handler was
\* attached, respectively for new configurations that carry setState; an
\* update that leaves the text unchanged notifies nothing and calls no
\* setState, whatever other fields changed.
C5_OnlyTextChangesNotify ==
    /\ calls.tlcTextChanged = expected.tlcTextChanged
    /\ calls.setState = expected.setState
    /\ (op = "updateConfig" /\ TextOf(PrevInput) = TextOf(LastInput))
       => ~Invoked("tlcTextChanged") /\ ~Invoked("setState")

C5_Witness ==
    /\ op = "updateConfig"
    /\ calls.updateConfig = 3
    /\ calls.tlcTextChanged = 1
    /\ calls.setState = 1
    /\ tlcTextChanged # None
    /\ TextOf(PrevInput) = TextOf(LastInput)
    /\ \E p \in PrevInput, c \in LastInput :
          /\ Has(c, "setState")
          /\ ~Has(p, "visible") /\ Given(c, "visible", FALSE)
    /\ ~Invoked("tlcTextChanged") /\ ~Invoked("setState")

\* C6: every updateConfig call invokes onConfigChange exactly once, with the
\* snapshot of the previous call's configuration as previous and the
\* configuration just passed as current; when the call returns the snapshot
\* equals the configuration just passed; one hook call per updateConfig call.
C6_HookSeesPreviousAndCurrent ==
    /\ calls.onConfigChange = calls.updateConfig
    /\ op = "updateConfig" =>
          /\ Positions("onConfigChange") = {1}
          /\ {effects[1].previous} = PrevInput
          /\ {effects[1].current} = LastInput
          /\ {heap[_previousConfig]} = LastInput

C6_Witness ==
    /\ op = "updateConfig"
    /\ calls.updateConfig = 3
    /\ calls.onConfigChange = 3
    /\ PrevInput # LastInput
    /\ {effects[1].previous} = PrevInput
    /\ {heap[_previousConfig]} = LastInput

\* C7: the snapshot is an object of its own holding the content the
\* configuration had when it was passed: an assignment to a top-level field
\* of the caller's object leaves the snapshot as it was, and an updateConfig
\* with that same object then hands the content from before the assignment
\* to onConfigChange as previous, so that the label detects the change.
C7_SnapshotIsACopy ==
    constructed =>
        /\ _previousConfig # _config
        /\ {heap[_previousConfig]} = LastInput
        /\ (op = "updateConfig" /\ Len(inputs) = 2 /\ inputs[1].ref = inputs[2].ref)
           => /\ effects[1].previous = inputs[2].cfg
              /\ (kind = "label" /\ tlcTextChanged # None
                    /\ Field(inputs[1].cfg, "text") # Field(inputs[2].cfg, "text"))
                 => Invoked("tlcTextChanged")

C7_Witness ==
    /\ op = "updateConfig"
    /\ kind = "label"
    /\ Len(inputs) = 2
    /\ inputs[1].ref = inputs[2].ref
    /\ inputs[2].cfg.text = "A"
    /\ inputs[1].cfg.text = "B"
    /\ effects[1].previous.text = "A"
    /\ Invoked("tlcTextChanged")

-----------------------------------------------------------------------------
(* Static and dynamic style content *)

DynamicKeys == {"opacity", "display"}

\* C11: the static style is the stl record of the configuration without its
\* opacity and display keys, key for key, and the empty record when the
\* configuration has no stl; it never has an opacity or a display key.
C11_StaticStyleContent ==
    (op = "staticStyle" /\ Invoked("computeStaticStyle")) =>
        \A style \in ret :
            /\ DOMAIN style \cap DynamicKeys = {}
            /\ IF Has(Held, "stl")
               THEN /\ DOMAIN style = DOMAIN Held.stl \ DynamicKeys
                    /\ \A k \in DOMAIN style : style[k] = Held.stl[k]
               ELSE style = EmptyObject

C11_Witness ==
    /\ op = "staticStyle"
    /\ Invoked("computeStaticStyle")
    /\ Has(Held, "stl")
    /\ DOMAIN Held.stl = {"opacity", "display", "color"}
    /\ ret = {[color |-> "red"]}

\* the opacity, display and color a configuration calls for, as {} or {value}
OpacityFor(cfg) ==
    IF Given(cfg, "disabled", TRUE) THEN {DisabledOpacityOf(cfg)}
    ELSE IF Has(cfg, "stl") THEN Field(cfg.stl, "opacity") ELSE {}
DisplayFor(cfg) ==
    IF Given(cfg, "visible", FALSE) THEN {"none"}
    ELSE IF Has(cfg, "stl") THEN Field(cfg.stl, "display") ELSE {}
ColorFor(cfg) ==
    IF Given(cfg, "disabled", TRUE) THEN Field(cfg, "disabledTextColor") \ {""} ELSE {}

\* C12: every read of dynamicStyle is computed from the configuration last
\* passed (to the constructor or to updateConfig): its opacity, display and
\* color are the ones that configuration calls for, and it has no other key.
C12_DynamicStyleIsCurrent ==
    op = "dynamicStyle" =>
        \A style \in ret, c \in LastInput :
            /\ DOMAIN style \subseteq {"opacity", "display", "color"}
            /\ Field(style, "opacity") = OpacityFor(c)
            /\ Field(style, "display") = DisplayFor(c)
            /\ Field(style, "color") = ColorFor(c)

C12_Witness ==
    /\ op = "dynamicStyle"
    /\ calls.updateConfig >= 1
    /\ \E p \in PrevInput, c \in LastInput :
          /\ Given(p, "disabled", TRUE) /\ Given(p, "stl", StyleA)
          /\ Given(c, "visible", FALSE) /\ Given(c, "stl", StyleB)
          /\ ~Has(c, "disabled")
    /\ ret = {[display |-> "none"]}

-----------------------------------------------------------------------------
(* Configuration factories: createButtonConfig / createLabelConfig.  Objects
   live in a heap of their own, so that a record and its attr record are
   told apart from copies of them; the attr field of a configuration holds
   the address of its attr record. *)

MaxCreates == 2
MaxAssigns == 1

Undefined == 0
OverridesAddr == 1
OverridesAttrAddr == 2
FactoryAddrs == 1 .. (2 * MaxCreates + 7)

Ids == {"", "w1"}

\* the object at an address, and a new object
Obj(h, a) == CHOOSE o \in h[a] : TRUE
Alloc(h) ==
    CHOOSE a \in DOMAIN h : h[a] = {} /\ \A b \in DOMAIN h : h[b] = {} => a <= b
New(h, o) == LET a == Alloc(h) IN [heap |-> [h EXCEPT ![a] = {o}], ref |-> a]

\* { ...x } of a value that may be undefined
Spread(h, a) == IF a = Undefined THEN EmptyObject ELSE Obj(h, a)
\* x.attr, undefined when x has none
AttrOf(o) == IF Has(o, "attr") THEN o.attr ELSE Undefined

\* createDefaultButtonConfig leaving loading out
createDefaultButtonConfigNoLoading(h, id) ==
    LET attr == New(h, EmptyObject)
    IN New(attr.heap,
           [id |-> id, visible |-> TRUE, disabled |-> FALSE, color |-> "primary",
            type |-> "contained", label |-> "Press me", attr |-> attr.ref])

createDefaultButtonConfig(h, id) ==
    LET attr == New(h, EmptyObject)
    IN New(attr.heap,
           [id |-> id, visible |-> TRUE, disabled |-> FALSE, color |-> "primary",
            type |-> "contained", loading |-> FALSE, label |-> "Press me",
            attr |-> attr.ref])

createDefaultLabelConfig(h, id) ==
    LET attr == New(h, EmptyObject)
    IN New(attr.heap,
           [id |-> id, visible |-> TRUE, disabled |-> FALSE, text |-> "Label",
            attr |-> attr.ref])

\* overrides: Partial<...> = {}
DefaultParameter(h, overrides) ==
    IF overrides = Undefined THEN New(h, EmptyObject)
    ELSE [heap |-> h, ref |-> overrides]

\* { ...defaults, ...overrides, attr: { ...attrDefaults.attr, ...overrides.attr } }
MergeLiteral(h, defaults, overrides, attrDefaults) ==
    LET attr == New(h, Spread(h, AttrOf(Obj(h, overrides)))
                        @@ Spread(h, AttrOf(Obj(h, attrDefaults))))
    IN New(attr.heap, ("attr" :> attr.ref) @@ Obj(h, overrides) @@ Obj(h, defaults))

\* { ...overrides, ...defaults, attr: ... }: the defaults spread last
MergeLiteralDefaultsLast(h, defaults, overrides, attrDefaults) ==
    LET attr == New(h, Spread(h, AttrOf(Obj(h, overrides)))
                        @@ Spread(h, AttrOf(Obj(h, attrDefaults))))
    IN New(attr.heap, ("attr" :> attr.ref) @@ Obj(h, defaults) @@ Obj(h, overrides))

\* { ...defaults, ...overrides }: no attr entry of its own
MergeLiteralShallow(h, defaults, overrides, attrDefaults) ==
    New(h, Obj(h, overrides) @@ Obj(h, defaults))

\* createButtonConfig with the defaults spread after the overrides
createButtonConfigDefaultsLast(h, id, overrides) ==
    LET ov == DefaultParameter(h, overrides)
        d1 == createDefaultButtonConfig(ov.heap, id)
        d2 == createDefaultButtonConfig(d1.heap, id)
    IN MergeLiteralDefaultsLast(d2.heap, d1.ref, ov.ref, d2.ref)

\* createButtonConfig without the attr entry
createButtonConfigShallow(h, id, overrides) ==
    LET ov == DefaultParameter(h, overrides)
        d1 == createDefaultButtonConfig(ov.heap, id)
        d2 == createDefaultButtonConfig(d1.heap, id)
    IN MergeLiteralShallow(d2.heap, d1.ref, ov.ref, d2.ref)

createButtonConfig(h, id, overrides) ==
    LET ov == DefaultParameter(h, overrides)
        d1 == createDefaultButtonConfig(ov.heap, id)
        d2 == createDefaultButtonConfig(d1.heap, id)
    IN MergeLiteral(d2.heap, d1.ref, ov.ref, d2.ref)

createLabelConfig(h, id, overrides) ==
    LET ov == DefaultParameter(h, overrides)
        d1 == createDefaultLabelConfig(ov.heap, id)
        d2 == createDefaultLabelConfig(d1.heap, id)
    IN MergeLiteral(d2.heap, d1.ref, ov.ref, d2.ref)

\* an object with its attr record in place of the address
Deep(h, a) ==
    LET o == Obj(h, a)
    IN IF Has(o, "attr") THEN ("attr" :> Obj(h, o.attr)) @@ o ELSE o

\* the objects a set of roots keeps alive; the others are released
Reachable(h, roots) ==
    (roots \cup {AttrOf(Obj(h, a)) : a \in roots}) \ {Undefined}
Keep(h, live) == [a \in DOMAIN h |-> IF a \in live THEN h[a] ELSE {}]

\* what callers pass as overrides
AttrRecords ==
    {EmptyObject, "testID" :> "save", ("testID" :> "save") @@ ("role" :> "button")}
ButtonOverrides ==
    {l @@ d @@ t @@ i : l \in Opt("label", {"Save"}), d \in Opt("disabled", {TRUE}),
                         t \in Opt("type", {"outlined"}), i \in Opt("id", {"other"})}
LabelOverrides ==
    {t @@ v @@ d @@ i : t \in Opt("text", {"Hello"}), v \in Opt("visible", {FALSE}),
                         d \in Opt("disabled", {TRUE}), i \in Opt("id", {"other"})}
Overrides(k) == IF k = "label" THEN LabelOverrides ELSE ButtonOverrides

\* a caller holding an overrides record, with or without an attr record
InitFactory ==
    /\ kind \in Kinds
    /\ Unconstructed
    /\ \E o \in Overrides(kind), attr \in {{}} \cup {{a} : a \in AttrRecords} :
          objects = [a \in FactoryAddrs |->
                        IF a = OverridesAddr
                        THEN {IF attr = {} THEN o
                              ELSE ("attr" :> OverridesAttrAddr) @@ o}
                        ELSE IF a = OverridesAttrAddr THEN attr
                        ELSE {}]
    /\ created = <<>>
    /\ assigned = {}

Results == {created[i].result : i \in DOMAIN created}

\* createButtonConfig(id) / createButtonConfig(id, overrides), and the label's
createConfig(id, pass) ==
    /\ Len(created) < MaxCreates
    /\ LET ov == IF pass THEN OverridesAddr ELSE Undefined
           r == IF kind = "label" THEN createLabelConfig(objects, id, ov)
                ELSE createButtonConfig(objects, id, ov)
           live == Reachable(r.heap, {OverridesAddr, r.ref} \cup Results)
       IN /\ objects' = Keep(r.heap, live)
          /\ created' = <<[id |-> id, overrides |-> ov,
                           before |-> Deep(objects, OverridesAddr),
                           result |-> r.ref,
                           value |-> Deep(r.heap, r.ref)]>> \o created
          /\ Returned("createConfig", <<>>, {r.ref})
    /\ UNCHANGED <<assigned, screen, hostState, kind, constructed, wrapperFields, handlers,
                   firstStaticStyle, inputHistory>>

\* the record a caller reaches as overrides, overrides.attr, a result or its attr
Owners == {0} \cup DOMAIN created
Root(owner) == IF owner = 0 THEN OverridesAddr ELSE created[owner].result
Target(owner, attr) ==
    IF attr THEN AttrOf(Obj(objects, Root(owner))) ELSE Root(owner)

\* the caller assigns a field of a record it holds: x.added = ..., x.attr.added = ...
callerAssigns(owner, attr) ==
    /\ Cardinality(assigned) < MaxAssigns
    /\ owner \in Owners
    /\ LET a == Target(owner, attr)
       IN /\ a # Undefined
          /\ a \notin assigned
          /\ assigned' = assigned \cup {a}
          /\ objects' = [objects EXCEPT ![a] = {Assign(Obj(objects, a), "added", "x")}]
    /\ created' =
          [i \in DOMAIN created |->
              IF i # owner THEN created[i]
              ELSE [created[i] EXCEPT !.value =
                      IF attr THEN Assign(@, "attr", Assign(@.attr, "added", "x"))
                      ELSE Assign(@, "added", "x")]]
    /\ Returned("assign", <<>>, {})
    /\ UNCHANGED <<screen, hostState, kind, constructed, wrapperFields, handlers,
                   firstStaticStyle, inputHistory>>

NextFactory ==
    \/ \E id \in Ids, pass \in BOOLEAN : createConfig(id, pass)
    \/ \E owner \in 0 .. MaxCreates, attr \in BOOLEAN : callerAssigns(owner, attr)

SpecFactory == InitFactory /\ [][NextFactory]_vars

\* the last factory call: what was passed as overrides ({} when nothing was)
\* and the configuration returned, both with attr in place
PassedOverrides ==
    IF created[1].overrides = Undefined THEN EmptyObject ELSE created[1].before
Returns == created[1].value
AttrIn(o) == IF Has(o, "attr") THEN o.attr ELSE EmptyObject

\* the defaults of the factory, with attr in place
DefaultsOf(k, id) ==
    LET blank == [a \in FactoryAddrs |-> {}]
        d == IF k = "label" THEN createDefaultLabelConfig(blank, id)
             ELSE createDefaultButtonConfig(blank, id)
    IN Deep(d.heap, d.ref)

\* C13: the configuration a factory returns has, for every top-level field of
\* overrides other than attr, the value overrides gives it; it always has an
\* attr record, whose keys are those of the default attr and of overrides.attr
\* together, with the override's value on every key overrides.attr has and the
\* default's value on the others.
C13_OverridesMerge ==
    op = "createConfig" =>
        LET ov == PassedOverrides
            r == Returns
            d == DefaultsOf(kind, created[1].id)
        IN /\ \A k \in DOMAIN ov \ {"attr"} : Has(r, k) /\ r[k] = ov[k]
           /\ Has(r, "attr")
           /\ DOMAIN r.attr = DOMAIN d.attr \cup DOMAIN AttrIn(ov)
           /\ \A k \in DOMAIN AttrIn(ov) : r.attr[k] = ov.attr[k]
           /\ \A k \in DOMAIN d.attr \ DOMAIN AttrIn(ov) : r.attr[k] = d.attr[k]

C13_Witness ==
    /\ op = "createConfig"
    /\ kind = "button"
    /\ created[1].overrides = OverridesAddr
    /\ Given(PassedOverrides, "label", "Save")
    /\ Given(PassedOverrides, "disabled", TRUE)
    /\ DOMAIN AttrIn(PassedOverrides) = {"testID", "role"}
    /\ Returns.label = "Save"
    /\ Returns.disabled = TRUE
    /\ Returns.type = "contained"
    /\ Returns.attr = AttrIn(PassedOverrides)

\* C14: called with an id alone, createButtonConfig returns visible = true,
\* disabled = false, color = 'primary', type = 'contained', loading = false,
\* label = 'Press me' and createLabelConfig returns visible = true,
\* disabled = false, text = 'Label', each with the id given; with overrides,
\* every one of these fields that overrides does not name has that value.
C14_Defaults ==
    op = "createConfig" =>
        LET id == created[1].id
            defaults ==
                IF kind = "label"
                THEN [id |-> id, visible |-> TRUE, disabled |-> FALSE,
                      text |-> "Label"]
                ELSE [id |-> id, visible |-> TRUE, disabled |-> FALSE,
                      color |-> "primary", type |-> "contained",
                      loading |-> FALSE, label |-> "Press me"]
        IN \A k \in DOMAIN defaults \ DOMAIN PassedOverrides :
              Has(Returns, k) /\ Returns[k] = defaults[k]

C14_Witness ==
    /\ op = "createConfig"
    /\ kind = "button"
    /\ created[1].overrides = Undefined
    /\ created[1].id = "w1"
    /\ Returns.id = "w1"
    /\ Returns.label = "Press me"
    /\ Returns.loading = FALSE
    /\ Returns.attr = EmptyObject

\* the addresses of the records a configuration is made of
Parts(a) == Reachable(objects, {a})

\* C15: every factory call returns a configuration, for the empty id too; the
\* overrides record and its attr are after the call as they were before it;
\* the configuration returned and its attr are records of their own, shared
\* neither with the arguments nor with the result of another call, so that a
\* later assignment to a field of one of those leaves it as it was.
C15_FactoryIsPure ==
    /\ \A i \in DOMAIN created :
          /\ objects[created[i].result] # {}
          /\ Deep(objects, created[i].result) = created[i].value
          /\ Parts(created[i].result) \cap Parts(OverridesAddr) = {}
          /\ \A j \in DOMAIN created :
                i # j => Parts(created[i].result) \cap Parts(created[j].result) = {}
    /\ op = "createConfig" =>
          /\ ret = {created[1].result}
          /\ Cardinality(Parts(created[1].result)) = 2
          /\ Deep(objects, OverridesAddr) = created[1].before

C15_Witness ==
    /\ op = "assign"
    /\ Len(created) = 2
    /\ created[1].id = ""
    /\ created[1].overrides = OverridesAddr
    /\ created[2].overrides = OverridesAddr
    /\ OverridesAttrAddr \in assigned
    /\ Has(Deep(objects, OverridesAddr).attr, "added")
    /\ ~Has(created[1].value.attr, "added")
    /\ Deep(objects, created[1].result) = created[1].value

-----------------------------------------------------------------------------
(* Button mode *)

\* a word with the letters at the positions of S in lower case
Lowered(word, S) ==
    [i \in DOMAIN word |->
        IF i \in S
        THEN LowerCase[CHOOSE j \in DOMAIN UpperCase : UpperCase[j] = word[i]]
        ELSE word[i]]
Spellings(word) == {Lowered(word, S) : S \in SUBSET DOMAIN word}

\* a word with one character replaced
Replaced(word, i, c) == [word EXCEPT ![i] = c]

\* the type strings getButtonMode is called with: the six names in every
\* letter case, and strings that are none of them
TypeStrings ==
    UNION {Spellings(w) : w \in {BASIC, STROKED, RAISED, CONTAINED, OUTLINED, TEXT}}
    \cup {Replaced(CONTAINED, 6, "U+0131"), Replaced(STROKED, 1, "U+017F"),
          Replaced(Lowered(OUTLINED, {1, 2}), 5, "U+0131")}
    \cup {<<>>, <<"T", "E", "X">>, TEXT \o <<"S">>, <<" ">> \o TEXT,
          <<"Z">>, <<"1">>, BASIC \o <<"-">> \o TEXT,
          Lowered(CONTAINED, DOMAIN CONTAINED) \o <<"-">> \o <<"t", "o", "n", "a", "l">>,
          <<"e", "l", "e", "v", "a", "t", "e", "d">>, RAISED \o RAISED}

\* getButtonMode(cfg.type)
getButtonModeCall(type) ==
    /\ kind = "button"
    /\ inputs' = <<[ref |-> NullAddr, cfg |-> [type |-> type]]>>
    /\ Returned("getButtonMode", <<>>, {getButtonMode(type)})
    /\ UNCHANGED <<factoryState, screen, hostState, kind, constructed, wrapperFields,
                   handlers, firstStaticStyle, constructedWith, expected>>

NextMode == \E type \in TypeStrings : getButtonModeCall(type)

SpecMode == Init /\ [][NextMode]_vars

\* the characters that are a letter-case form of an upper-case letter
LowerOf ==
    [A |-> "a", B |-> "b", C |-> "c", D |-> "d", E |-> "e", I |-> "i", K |-> "k",
     L |-> "l", N |-> "n", O |-> "o", R |-> "r", S |-> "s", T |-> "t", U |-> "u",
     X |-> "x", Z |-> "z"]
CaseForms(u) ==
    {u, LowerOf[u]} \cup (IF u = "I" THEN {"U+0131"} ELSE {})
                    \cup (IF u = "S" THEN {"U+017F"} ELSE {})
Spells(str, word) ==
    /\ Len(str) = Len(word)
    /\ \A i \in 1 .. Len(word) : str[i] \in CaseForms(word[i])

\* C19: getButtonMode gives 'text' for BASIC and TEXT, 'outlined' for STROKED
\* and OUTLINED, 'contained' for RAISED and CONTAINED, each written in any
\* letter case, and 'text' for every other string; the result is one of
\* 'text', 'outlined', 'contained', the same whatever call came before.
C19_ButtonMode ==
    op = "getButtonMode" =>
        LET type == inputs[1].cfg.type
        IN /\ ret \subseteq {"text", "outlined", "contained"}
           /\ ret = {IF Spells(type, STROKED) \/ Spells(type, OUTLINED)
                     THEN "outlined"
                     ELSE IF Spells(type, RAISED) \/ Spells(type, CONTAINED)
                     THEN "contained"
                     ELSE "text"}

C19_Witness ==
    /\ op = "getButtonMode"
    /\ inputs[1].cfg.type = <<"s", "T", "r", "O", "k", "E", "d">>
    /\ ret = {"outlined"}

-----------------------------------------------------------------------------
(* Interactions *)

InteractionKinds == {"press", "longPress", "tlcClick"}
Interactions(effs) == {i \in DOMAIN effs : effs[i].kind \in InteractionKinds}

\* the value a coordinate or timestamp of the event metadata takes for the
\* gesture of the interaction: the gesture's own when it has one
MetaOf(f, fallback) ==
    IF NativeField(touch, f) \in {{}, {0}} THEN fallback ELSE NativeField(touch, f)

\* C16: a press on a rendered button that is not disabled, with a handler
\* registered, delivers exactly one interaction event, to that handler,
\* carrying the button's id, the label it was rendered with and a timestamp;
\* in the split-callback variant the pointer kind is 'touch' and the
\* coordinates are those of the gesture, 0 when it has none.
C16_PressDelivers ==
    (op = "press" /\ ClickHandler # None)
        => \A el \in rendered : ~Truthy(el.disabled)
            => /\ Cardinality(Interactions(effects)) = 1
               /\ \A i \in Interactions(effects) :
                    LET e == effects[i].event
                    IN /\ effects[i].to = ClickHandler
                       /\ IF kind = "button"
                          THEN /\ e.type = "press"
                               /\ {e.componentId} = _staticId
                               /\ e.componentId = Held.id
                               /\ e.data.label = el.children
                               /\ e.timestamp \in Clock
                          ELSE /\ {e.id} = _staticId
                               /\ e.id = Held.id
                               /\ e.label = el.children
                               /\ e.eventMeta.pointerType = "touch"
                               /\ e.eventMeta.timestamp \in MetaOf("timestamp", Clock)
                               /\ e.eventMeta.x \in MetaOf("pageX", {0})
                               /\ e.eventMeta.y \in MetaOf("pageY", {0})

\* a press without a gesture event on an enabled split-callback button whose
\* host listens: one click event with coordinates 0
C16_Witness ==
    /\ op = "press"
    /\ kind = "buttonSplit"
    /\ tlcClick # None
    /\ touch = {}
    /\ \E el \in rendered : ~Truthy(el.disabled)
    /\ \E i \in DOMAIN effects :
        /\ effects[i].kind = "tlcClick"
        /\ effects[i].event.eventMeta.x = 0

\* the handler initializeEvent() notifies and the notification it delivers
InitHandler == IF TakesOnEvent(kind) THEN onEvent ELSE tlcInit
InitKind == IF TakesOnEvent(kind) THEN "initialized" ELSE "tlcInit"

\* C17: while the configuration the wrapper holds has disabled = true, no
\* press and no long press produces an interaction event, and
\* initializeEvent() still notifies the attached handler.
C17_DisabledIsSilent ==
    /\ (op \in {"press", "longPress"} /\ Given(Held, "disabled", TRUE))
            => Interactions(effects) = {}
    /\ (op = "initializeEvent" /\ Given(Held, "disabled", TRUE)
            /\ InitHandler # None)
            => Count(effects, InitKind) = 1

\* the configuration the element on screen was rendered with
RenderedWith(el) == (CHOOSE c \in el.onPress : TRUE).cfg

\* the interaction event a press on the same element with the same gesture
\* delivers
PressEvents(el) ==
    UNION {LET effs == onPress(kind, RenderedWith(el),
                               CHOOSE i \in _staticId : TRUE, ClickHandler,
                               touch, now)
           IN {effs[i].event : i \in Interactions(effs)} : now \in Clock}

\* C18: the element on screen has a long-press handler exactly when the
\* configuration it was rendered with has longPress = true; without it a
\* long press emits nothing; with it, on a button not rendered disabled and
\* with a handler registered, a long press delivers exactly one event, which
\* carries the id and the label: of type 'longPress' in the unified button,
\* and in the split-callback button the very event a press delivers (id,
\* label, eventMeta).
C18_LongPress ==
    op = "longPress"
        => \A el \in rendered :
            LET cfg == RenderedWith(el)
                on == Given(cfg, "longPress", TRUE)
            IN /\ on <=> el.onLongPress # {}
               /\ ~on => effects = <<>>
               /\ (on /\ ~Truthy(el.disabled) /\ ClickHandler # None)
                    => /\ Cardinality(Interactions(effects)) = 1
                       /\ \A i \in Interactions(effects) :
                            LET e == effects[i].event
                            IN /\ effects[i].to = ClickHandler
                               /\ IF kind = "button"
                                  THEN /\ e.type = "longPress"
                                       /\ {e.componentId} = _staticId
                                       /\ e.data.label = cfg.label
                                  ELSE /\ e \in PressEvents(el)
                                       /\ e.id = cfg.id
                                       /\ e.label = cfg.label
                                       /\ DOMAIN e = {"id", "label", "eventMeta"}

\* a long press on a split-callback button rendered with longPress = true
\* delivers a click event although the configuration held since has none
C18_Witness ==
    /\ op = "longPress"
    /\ kind = "buttonSplit"
    /\ Count(effects, "tlcClick") = 1
    /\ ~Has(Held, "longPress")
    /\ \E el \in rendered : Given(RenderedWith(el), "longPress", TRUE)

-----------------------------------------------------------------------------
(* Notifications after teardown *)

\* what a host's handlers can be notified of
Notifications ==
    {"initialized", "tlcInit", "destroyed", "tlcDestroy", "tlcTextChanged"}
        \cup InteractionKinds

\* the handler cleanup() notifies and the notification it delivers
DestroyHandler == IF TakesOnEvent(kind) THEN onEvent ELSE tlcDestroy
DestroyKind == IF TakesOnEvent(kind) THEN "destroyed" ELSE "tlcDestroy"

\* C20: the first cleanup() of an instance whose host listens delivers
\* exactly one destroyed notification, and no call made on the instance after
\* it (another cleanup(), an updateConfig, an interaction) delivers any
\* notification.
C20_DestroyedOnceThenSilent ==
    /\ (op = "cleanup" /\ calls.cleanup = 1 /\ DestroyHandler # None)
            => Count(effects, DestroyKind) = 1
    /\ (calls.cleanup >= 1 /\ ~(op = "cleanup" /\ calls.cleanup = 1))
            => \A i \in DOMAIN effects : effects[i].kind \notin Notifications

-----------------------------------------------------------------------------
(* Identity *)

\* C22: in every state of a constructed wrapper, staticId is the id of the
\* configuration it was constructed with, whatever updateConfig (also with a
\* configuration of another id), render and cleanup calls were made.
C22_StaticIdIsConstructionId ==
    /\ constructed => _staticId = {constructedWith.id}
    /\ op = "staticId" => ret = {constructedWith.id}

\* an update with another id, then a render and a cleanup: the held
\* configuration has the other id and staticId is read
C22_Witness ==
    /\ op = "staticId"
    /\ Held.id # constructedWith.id
    /\ calls.updateConfig >= 1
    /\ calls.cleanup >= 1
    /\ _staticStyle # {}
    /\ _staticId = {constructedWith.id}

-----------------------------------------------------------------------------
(* The destroy hook of the held configuration *)

\* C30: a destroy hook that cleanup() invokes is the one of the configuration
\* held at that time, which is the last one passed in, whatever hook the
\* construction configuration carried; when the held configuration has no
\* destroy hook, cleanup() invokes no hook and the initialized flag set by
\* init stays set.
C30_DestroyOfHeldConfig ==
    op = "cleanup" =>
        /\ \A i \in DOMAIN effects : effects[i].kind = "destroy" =>
                \A c \in LastInput : Has(c, "destroy")
                                        /\ effects[i].hook = c.destroy
        /\ ~Has(Held, "destroy") =>
                /\ \A i \in DOMAIN effects :
                        effects[i].kind \notin {"destroy", "init"}
                /\ (calls.init = 1 /\ calls.destroy = 0) => _initialized

\* cleanup() invoked the hook of an update, not the one of the construction
C30_Witness ==
    /\ op = "cleanup"
    /\ Has(constructedWith, "destroy")
    /\ \E i \in DOMAIN effects :
        /\ effects[i].kind = "destroy"
        /\ effects[i].hook # constructedWith.destroy

-----------------------------------------------------------------------------
(* The visibility gate as a function *)

\* the cases in which the component is to be hidden
HideCases(cfg) ==
    \/ Given(cfg, "visible", FALSE)
    \/ Given(cfg, "ngIf", NgIfBool(FALSE))
    \/ Given(cfg, "ngIf", NgIfFn(FALSE))

\* C27: shouldHideComponent() returns true exactly when visible is false, or
\* ngIf is false, or ngIf is a predicate returning false, whatever disabled
\* is, and the call leaves the configuration, the previous snapshot, the
\* initialized flag, staticId and the static-style cache as they were.
C27_ShouldHide ==
    [][op' = "shouldHideComponent"
        => /\ ret' = {HideCases(Held)}
           /\ UNCHANGED wrapperFields]_vars

\* the gate shows a disabled component whose ngIf predicate returns true
C27_Witness ==
    /\ op = "shouldHideComponent"
    /\ ret = {FALSE}
    /\ Given(Held, "disabled", TRUE)
    /\ Given(Held, "ngIf", NgIfFn(TRUE))
    /\ Given(Held, "visible", TRUE)

-----------------------------------------------------------------------------
(* The held configuration *)

\* C28: after construction with c or updateConfig(c) the held configuration,
\* and what config() returns until the next update, has the fields of c with
\* their values and no other field: a field missing from c is missing from it.
C28_HeldAsSupplied ==
    op \in {"new", "updateConfig", "config"}
        => \A c \in LastInput :
            /\ DOMAIN Held = DOMAIN c
            /\ \A f \in DOMAIN c : Held[f] = c[f]
            /\ op = "config" => ret = {c}


-----------------------------------------------------------------------------
(* The host components *)

\* the text of a label, the label of a button
Caption(k, c) == IF k = "label" THEN Field(c, "text") ELSE c.label

\* out is what a render of configuration c puts on screen, as far as the
\* text or label, the disabled flag and the visibility go
ShowsConfig(k, out, c) ==
    IF HideCases(c) THEN out = {}
    ELSE \E el \in out :
            /\ el.children = Caption(k, c)
            /\ k # "label" => el.disabled = Field(c, "disabled")

\* the positions of the host's calls of a method in a sequence of effects
MarksOf(effs, method) ==
    {i \in DOMAIN effs : effs[i] = Mark(method, effs[i].instance)
                            /\ effs[i].kind = method}

\* a render pass of the host component with a configuration object that is
\* not the one its wrapper held: the pass updates the wrapper it kept
RenderedWithAnother ==
    /\ op = "renderPass"
    /\ MarksOf(effects, "new") = {}
    /\ MarksOf(effects, "updateConfig") # {}

\* C23: when the host component is rendered with a configuration that
\* differs from the one the wrapper holds, updateConfig(new configuration) is
\* applied before render() is asked for output, so the output of the pass
\* (text or label, disabled flag, visibility) is computed from the new
\* configuration.
C23_UpdateBeforeRender ==
    RenderedWithAnother =>
        /\ \A c \in LastInput : ShowsConfig(kind, ret, c)
        /\ \A i \in MarksOf(effects, "updateConfig"),
              j \in MarksOf(effects, "render") : i < j

\* what instance n of the host's wrappers was notified of, or ran, in a
\* sequence of effects
Of(effs, knd, n) ==
    {i \in DOMAIN effs : effs[i].kind = knd /\ effs[i].instance = n}

\* a render pass in which the host component created a wrapper instance
CreatedInstance == op = "renderPass" /\ MarksOf(effects, "new") # {}

\* C21: no wrapper instance the host component creates is ever notified of
\* its initialization twice, and the render pass that creates an instance
\* with a handler supplied delivers exactly one initialized notification
\* ('initialized' through onEvent, or tlcInit), to that handler, after the
\* init hook of the configuration has run.
C21_InitializedOnce ==
    /\ \A n \in 1..Born : Cardinality(Of(log, InitKind, n)) <= 1
    /\ (CreatedInstance /\ InitHandler # None) =>
          /\ Cardinality(Of(effects, InitKind, Born)) = 1
          /\ \A i \in Of(effects, InitKind, Born) :
                /\ effects[i].to = InitHandler
                /\ \A j \in Of(effects, "init", Born) : j < i
          /\ Has(Held, "init") => Of(effects, "init", Born) # {}

\* a mounting render with a handler and an init hook
C21_Witness ==
    /\ CreatedInstance
    /\ InitHandler = "h1"
    /\ Has(Held, "init")
    /\ Of(effects, InitKind, Born) # {}

\* the configuration differs in id from the one of the previous render
IdChanges == \E c \in LastInput', p \in LastInput : c.id # p.id

\* a render with an object that is not the one the wrapper holds
ObjectChanges == \E i \in DOMAIN inputs' \cap {1} : inputs'[i].ref # _config

\* every instance created so far received cleanup() at most once, the
\* replaced ones and the one of an unmounted component exactly once, and
\* after initializeEvent() and the initialized notification it delivered
CleanedUpOnce ==
    \A n \in 1..Born :
        /\ Cardinality(Of(log, "cleanup", n)) = IF n = Born /\ mounted THEN 0 ELSE 1
        /\ \A i \in Of(log, "cleanup", n) :
              /\ \E j \in Of(log, "initializeEvent", n) : j < i
              /\ \A j \in Of(log, InitKind, n) : j < i

\* a render pass creates an instance exactly on mount and on a changed id;
\* otherwise a new configuration object reaches the instance of the previous
\* render through updateConfig and init does not run
KeyedOnId ==
    op' = "renderPass" =>
        /\ (MarksOf(effects', "new") # {}) <=> (~mounted \/ IdChanges)
        /\ (mounted /\ ~IdChanges) =>
              /\ Born' = Born
              /\ _staticId' = _staticId
              /\ Of(effects', "init", Born) = {}
              /\ ObjectChanges =>
                    /\ Of(effects', "updateConfig", Born) # {}
                    /\ LastInput' = {Held'}

\* C24: the host component creates a wrapper instance exactly on mount and
\* when config.id differs from the id of the previous render; while the id
\* is unchanged every configuration change reaches the same instance through
\* updateConfig and init is not run again; every instance receives cleanup()
\* exactly once, when it is replaced or the component unmounts, and never
\* before its own initialized notification.
C24_InstancePerId == [][KeyedOnId]_vars /\ []CleanedUpOnce

\* an instance replaced on a change of id, then the component unmounted
C24_Witness ==
    /\ op = "unmount"
    /\ Born = 2
    /\ Cardinality(MarksOf(log, "cleanup")) = 2
    /\ Of(log, InitKind, 1) # {}
    /\ Of(log, "updateConfig", 2) # {}

\* f is, for the onEvent label, what e is for the split-callback one: the
\* notification of the same occasion to the same listener with the same text
\* and previousText, or the same call or hook
Corresponds(e, f) ==
    IF e.kind \in {"tlcInit", "tlcDestroy"}
    THEN /\ f.kind = (IF e.kind = "tlcInit" THEN "initialized" ELSE "destroyed")
         /\ f.to = e.to
         /\ f.instance = e.instance
    ELSE IF e.kind = "tlcTextChanged"
    THEN /\ f.kind = "textChanged"
         /\ f.to = e.to
         /\ f.instance = e.instance
         /\ f.event.data.text = e.text
         /\ f.event.data.previousText = e.previousText
    ELSE f = e

\* C26: driven by the same renders, unmounts and repeated cleanups, the
\* split-callback label wrapper and the onEvent label wrapper deliver
\* corresponding notifications (tlcInit / initialized, tlcTextChanged /
\* textChanged, tlcDestroy / destroyed) in the same order, relative to each
\* other and to the init, setState and destroy hooks, with the same text and
\* previousText.
C26_LabelsCorrespond ==
    \A t \in twin :
        /\ Len(t.log) = Len(log)
        /\ \A i \in DOMAIN log : Corresponds(log[i], t.log[i])

\* both labels notified of their initialization, of a change of text next
\* to a setState hook, and of their destruction twice
C26_Witness ==
    /\ twin # {}
    /\ op = "cleanup"
    /\ Count(log, "tlcInit") = 1
    /\ Count(log, "tlcTextChanged") = 1
    /\ Count(log, "setState") = 1
    /\ Count(log, "tlcDestroy") = 2
    /\ Count(log, "destroy") = 1

\* the call of the step ended with an exception
Threw == effects # <<>> /\ effects[Len(effects)] = Exception

\* the content of the previous snapshot, if there is one
PreviousSnapshot == IF _previousConfig = NullAddr THEN {} ELSE {heap[_previousConfig]}

LabelOf(k, e) == IF k = "button" THEN e.data.label ELSE e.label

\* after updateConfig(c) the wrapper holds c and a snapshot of c
HoldsLast == op = "updateConfig" => LastInput = {Held} /\ PreviousSnapshot = {Held}

\* render() takes the gate, the disabled flag and the dynamic style from the
\* held configuration
RendersHeld ==
    op = "render" =>
        /\ (ret = {}) <=> HideCases(Held)
        /\ \A el \in ret : /\ el.disabled = Field(Held, "disabled")
                            /\ el.contentStyle[2] = computeDynamicStyle(Held)

\* an interaction reports the label of the held configuration
ReportsHeld ==
    op \in {"press", "longPress"} =>
        \A i \in Interactions(effects) : LabelOf(kind, effects[i].event) = Held.label

\* C29: updateConfig(c) replaces the held configuration wholesale: after it
\* the visibility gate, the dynamic style and the payload of later events
\* depend only on c, and no field of an earlier configuration persists.
C29_WholesaleReplacement == HoldsLast /\ RendersHeld /\ ReportsHeld


\* C31: when the text-changed handler or the setState callback throws inside
\* updateConfig(c), config() still returns the configuration held before the
\* call, the one the unchanged previous snapshot is a copy of.
C31_NotPartiallyUpdated ==
    (op = "updateConfig" /\ Threw) =>
        /\ {Held} = PrevInput
        /\ PreviousSnapshot = {Held}

\* the id an interaction event carries
IdOf(k, e) == IF k = "button" THEN e.componentId ELSE e.id

\* C32: every interaction event a button wrapper emits carries the id fixed
\* at construction (its staticId), also when updateConfig has since been
\* called with a configuration of another id and the button was rendered
\* again.
C32_EventsCarryStaticId ==
    op \in {"press", "longPress"} =>
        \A i \in Interactions(effects) :
            /\ {IdOf(kind, effects[i].event)} = _staticId
            /\ IdOf(kind, effects[i].event) = constructedWith.id

\* the same, of the button that takes one onEvent callback
UnifiedCarriesStaticId == kind = "button" => C32_EventsCarryStaticId

\* the notification of a text change
ChangeKind == IF TakesOnEvent(kind) THEN "textChanged" ELSE "tlcTextChanged"

\* a render of the mounted label, by its parent, with another text, by a
\* listener that stays
ChangesText ==
    /\ op' = "renderPass"
    /\ mounted
    /\ ChangeHandler # None
    /\ ChangeHandler' = ChangeHandler
    /\ \E c \in LastInput' : c.id = Held.id /\ Field(c, "text") # Field(Held, "text")

\* one text change: one notification, and one setState call if the
\* configuration has the callback; the render with the configuration
\* setState received: neither, and nothing scheduled
OneRound ==
    /\ ChangesText =>
          /\ Count(effects', ChangeKind) = 1
          /\ \A c \in LastInput' :
                Count(effects', "setState") = IF Has(c, "setState") THEN 1 ELSE 0
    /\ op' = Feedback =>
          /\ Count(effects', ChangeKind) = 0
          /\ Count(effects', "setState") = 0
          /\ pending' = {}
          /\ Born' = Born

\* C33: with a host whose setState callback feeds the configuration it
\* receives back as the label's next configuration, one text change leads
\* to exactly one text-changed notification and one setState call, and the
\* render that re-applies the configuration triggers no further
\* notification or setState call and schedules nothing.
C33_NoRenderLoop == [][OneRound]_vars

\* the render with the configuration setState received after a change of
\* text, with a listener attached
C33_Witness ==
    /\ op = Feedback
    /\ pending = {}
    /\ ChangeHandler # None
    /\ Count(log, ChangeKind) = 1
    /\ Count(log, "setState") = 1

\* the render changed the text of the mounted label
TextChanges ==
    /\ op = "renderPass"
    /\ \E p \in PrevInput, c \in LastInput :
          p.id = c.id /\ Field(p, "text") # Field(c, "text")

\* C34: when one host render changes both the label text and the
\* notification handler, the text-changed notification of that render is
\* delivered to the handler supplied in that same render (the one attached
\* when the render is over), not to the handler of the previous render.
C34_NotifiesHandlerOfThisRender ==
    TextChanges =>
        /\ \A i \in DOMAIN effects :
              effects[i].kind = ChangeKind => effects[i].to = ChangeHandler
        /\ ChangeHandler # None => Count(effects, ChangeKind) = 1

\* C35: the configuration createButtonConfig(id, overrides) and
\* createLabelConfig(id, overrides) return has its id field equal to the id
\* argument, also when overrides itself contains an id field.
C35_IdIsTheArgument ==
    op = "createConfig" => Has(Returns, "id") /\ Returns.id = created[1].id

\* the same, of the calls whose overrides carry no id field
IdKeptWithoutOverride ==
    (op = "createConfig" /\ ~Has(PassedOverrides, "id")) =>
        Has(Returns, "id") /\ Returns.id = created[1].id

\* the style override of a dynamic key, as {} or {value}
OverrideOf(cfg, k) == IF Has(cfg, "stl") THEN Field(cfg.stl, k) ELSE {}

\* C36: when the widget is not disabled the opacity of the dynamic style is
\* the stl.opacity of the configuration (the value 0 included), and the
\* style has no opacity key when stl gives none; when visible is not false
\* its display is the stl.display of the configuration, and the style has
\* no display key when stl gives none.
C36_OverrideWhenInactive ==
    op = "dynamicStyle" =>
        \A style \in ret :
            /\ ~Given(Held, "disabled", TRUE)
               => Field(style, "opacity") = OverrideOf(Held, "opacity")
            /\ ~Given(Held, "visible", FALSE)
               => Field(style, "display") = OverrideOf(Held, "display")

\* a widget with disabled = false and visible = true whose overrides are
\* opacity 0 and display 'flex'
C36_Witness ==
    /\ op = "dynamicStyle"
    /\ Given(Held, "disabled", FALSE)
    /\ Given(Held, "visible", TRUE)
    /\ OverrideOf(Held, "opacity") = {"0"}
    /\ OverrideOf(Held, "display") = {"flex"}
    /\ \E style \in ret : Given(style, "opacity", "0") /\ Given(style, "display", "flex")

\* a widget neither disabled nor hidden and without overrides
NoDynamicKeys ==
    /\ op = "dynamicStyle"
    /\ ~Has(Held, "disabled")
    /\ ~Has(Held, "visible")
    /\ ~Has(Held, "stl")
    /\ ret = {EmptyObject}

====
